---- MODULE Spec2Model ----
(***************************************************************************)
(* Model of the compliance and parameter-resolution logic of the Azure     *)
(* agent (agent/azure.py, agent/utils.py).                                  *)
(*                                                                         *)
(* Texts.  A Python str is modelled as a tuple of one-character strings; a *)
(* multi-line text is a tuple of lines.  Substring tests, lower(), strip() *)
(* and the regular-expression searches of the source are computed on the   *)
(* characters.  Decorative non-ASCII glyphs of the source's message texts  *)
(* (arrows, box rules, emoji) are left out of the literals; no test of the *)
(* source looks at them.  Python's None is the value None below.           *)
(***************************************************************************)
EXTENDS Integers, Sequences, FiniteSets, TLC

\* ------------------------------------------------------------------------
\* Bounds of the model
\* ------------------------------------------------------------------------
\* number of tool invocations in one behaviour (two: a run and its re-run)
MaxRuns == 2
\* largest number of items the check script lists in one output
MaxListed == 2
MaxDeclared == 2
\* lines of an output text of check-resource.ps1
MaxLines == 3
\* subnets listed for a virtual network
MaxSubnets == 3

\* ------------------------------------------------------------------------
\* Strings
\* ------------------------------------------------------------------------
None == << "<None>" >>

\* Body applied to the value v: a local name for a value used several times
With(v, Body(_)) == Body(v)

\* UpperAlpha is the text "ABCDEFGHIJKLMNOPQRSTUVWXYZ"
UpperAlpha == <<"A","B","C","D","E","F","G","H","I","J","K","L","M","N","O","P","Q","R","S","T","U","V","W","X","Y","Z">>
\* LowerAlpha is the text "abcdefghijklmnopqrstuvwxyz"
LowerAlpha == <<"a","b","c","d","e","f","g","h","i","j","k","l","m","n","o","p","q","r","s","t","u","v","w","x","y","z">>
Digits == {"0","1","2","3","4","5","6","7","8","9"}
Whitespace == {" ", "\t"}

ToSet(s) == { s[i] : i \in DOMAIN s }

\* str.lower() on one character
LowerChar(c) ==
    IF \E i \in DOMAIN UpperAlpha : UpperAlpha[i] = c
    THEN LowerAlpha[CHOOSE i \in DOMAIN UpperAlpha : UpperAlpha[i] = c]
    ELSE c

\* str.lower()
Lower(s) == [ i \in DOMAIN s |-> LowerChar(s[i]) ]

\* text.lower() on a multi-line text
LowerText(t) == [ i \in DOMAIN t |-> Lower(t[i]) ]

\* the positions at which sub occurs in s
Occurrences(s, sub) ==
    IF sub = <<>> THEN 1..(Len(s) + 1)
    ELSE { i \in 1..(Len(s) - Len(sub) + 1) :
             s[i] = sub[1] /\ SubSeq(s, i, i + Len(sub) - 1) = sub }

\* `sub in s` for one-line strings
ContainsStr(s, sub) == Occurrences(s, sub) # {}

\* `sub in text` for a text of several lines (sub holds no newline)
Contains(t, sub) == \E i \in DOMAIN t : ContainsStr(t[i], sub)

\* any(k in text for k in keywords)
ContainsAny(t, keywords) == \E k \in ToSet(keywords) : Contains(t, k)

Min(S) == CHOOSE x \in S : \A y \in S : x <= y

\* str.find(sub) + 1, i.e. 0 when absent
IndexOf(s, sub) == IF ContainsStr(s, sub) THEN Min(Occurrences(s, sub)) ELSE 0

\* str.lstrip() / str.rstrip() / str.strip()
RECURSIVE LStrip(_)
LStrip(s) == IF s # <<>> /\ Head(s) \in Whitespace THEN LStrip(Tail(s)) ELSE s

RECURSIVE RStrip(_)
RStrip(s) ==
    IF s # <<>> /\ s[Len(s)] \in Whitespace THEN RStrip(SubSeq(s, 1, Len(s) - 1)) ELSE s

Strip(s) == RStrip(LStrip(s))

\* sep.join(parts)
RECURSIVE Join(_, _)
Join(parts, sep) ==
    IF parts = <<>> THEN <<>>
    ELSE IF Len(parts) = 1 THEN parts[1]
    ELSE parts[1] \o sep \o Join(Tail(parts), sep)

\* Python truthiness of an optional string
Falsy(s) == s = None \/ s = <<>>

\* s or default
OrElse(s, default) == IF Falsy(s) THEN default ELSE s

\* ------------------------------------------------------------------------
\* Constants of agent/utils.py
\* ------------------------------------------------------------------------
ERROR_KEYWORDS == << <<"E","r","r","o","r">>, <<"e","r","r","o","r">>, <<"F","A","I","L","E","D">>, <<"F","a","i","l","e","d">>, <<"f","a","i","l","e","d">> >>

\* the words run_command looks for in the lower-cased stderr
STDERR_WORDS ==
    << <<"e","r","r","o","r">>, <<"f","a","i","l","e","d">>, <<"e","x","c","e","p","t","i","o","n">>, <<"c","a","n","n","o","t">>, <<"u","n","a","u","t","h","o","r","i","z","e","d">>, <<"f","o","r","b","i","d","d","e","n">>,
       <<"n","o","t"," ","f","o","u","n","d">> >>

\* a horizontal rule of a message box (drawn with box glyphs in the source)
\* S_Rule is the text "----"
S_Rule == <<"-","-","-","-">>

AZURE_ERROR_PATTERNS ==
    << [ code |-> <<"A","u","t","h","o","r","i","z","a","t","i","o","n","F","a","i","l","e","d">>, message |-> <<" ","A","U","T","H","O","R","I","Z","A","T","I","O","N"," ","E","R","R","O","R">>,
         cause |-> <<"Y","o","u"," ","d","o","n","'","t"," ","h","a","v","e"," ","s","u","f","f","i","c","i","e","n","t"," ","p","e","r","m","i","s","s","i","o","n","s"," ","t","o"," ","p","e","r","f","o","r","m"," ","t","h","i","s"," ","a","c","t","i","o","n",".">>,
         solutions |-> << <<"R","u","n"," ","'","a","z"," ","l","o","g","i","n","'"," ","t","o"," ","r","e","f","r","e","s","h"," ","y","o","u","r"," ","c","r","e","d","e","n","t","i","a","l","s">>,
                          <<"V","e","r","i","f","y"," ","y","o","u"," ","h","a","v","e"," ","'","C","o","n","t","r","i","b","u","t","o","r","'"," ","o","r"," ","'","O","w","n","e","r","'"," ","r","o","l","e"," ","o","n"," ","t","h","e"," ","r","e","s","o","u","r","c","e"," ","g","r","o","u","p">>,
                          <<"C","h","e","c","k"," ","i","f"," ","y","o","u","r"," ","t","o","k","e","n"," ","h","a","s"," ","e","x","p","i","r","e","d"," ","(","t","o","k","e","n","s"," ","e","x","p","i","r","e"," ","a","f","t","e","r"," ","~","1"," ","h","o","u","r",")">>,
                          <<"C","o","n","t","a","c","t"," ","y","o","u","r"," ","A","z","u","r","e"," ","a","d","m","i","n"," ","t","o"," ","g","r","a","n","t"," ","r","e","q","u","i","r","e","d"," ","p","e","r","m","i","s","s","i","o","n","s">> >> ],
       [ code |-> <<"R","e","s","o","u","r","c","e","N","o","t","F","o","u","n","d">>, message |-> <<" ","R","E","S","O","U","R","C","E"," ","N","O","T"," ","F","O","U","N","D">>,
         cause |-> <<"T","h","e"," ","s","p","e","c","i","f","i","e","d"," ","r","e","s","o","u","r","c","e"," ","d","o","e","s"," ","n","o","t"," ","e","x","i","s","t",".">>,
         solutions |-> << <<"V","e","r","i","f","y"," ","t","h","e"," ","r","e","s","o","u","r","c","e"," ","n","a","m","e"," ","a","n","d"," ","r","e","s","o","u","r","c","e"," ","g","r","o","u","p"," ","a","r","e"," ","c","o","r","r","e","c","t">>,
                          <<"C","h","e","c","k"," ","i","f"," ","t","h","e"," ","r","e","s","o","u","r","c","e"," ","w","a","s"," ","d","e","l","e","t","e","d"," ","o","r"," ","m","o","v","e","d">>,
                          <<"E","n","s","u","r","e"," ","y","o","u","'","r","e"," ","u","s","i","n","g"," ","t","h","e"," ","c","o","r","r","e","c","t"," ","s","u","b","s","c","r","i","p","t","i","o","n">> >> ],
       [ code |-> <<"S","u","b","s","c","r","i","p","t","i","o","n","N","o","t","F","o","u","n","d">>, message |-> <<" ","S","U","B","S","C","R","I","P","T","I","O","N"," ","N","O","T"," ","F","O","U","N","D">>,
         cause |-> <<"T","h","e"," ","s","p","e","c","i","f","i","e","d"," ","s","u","b","s","c","r","i","p","t","i","o","n"," ","i","s"," ","n","o","t"," ","a","c","c","e","s","s","i","b","l","e",".">>,
         solutions |-> << <<"R","u","n"," ","'","a","z"," ","a","c","c","o","u","n","t"," ","l","i","s","t","'"," ","t","o"," ","s","e","e"," ","a","v","a","i","l","a","b","l","e"," ","s","u","b","s","c","r","i","p","t","i","o","n","s">>,
                          <<"R","u","n"," ","'","a","z"," ","a","c","c","o","u","n","t"," ","s","e","t"," ","-","-","s","u","b","s","c","r","i","p","t","i","o","n"," ","<","i","d",">","'"," ","t","o"," ","s","w","i","t","c","h"," ","s","u","b","s","c","r","i","p","t","i","o","n","s">>,
                          <<"V","e","r","i","f","y"," ","y","o","u"," ","h","a","v","e"," ","a","c","c","e","s","s"," ","t","o"," ","t","h","e"," ","s","u","b","s","c","r","i","p","t","i","o","n">> >> ],
       [ code |-> <<"I","n","v","a","l","i","d","R","e","s","o","u","r","c","e","T","y","p","e">>, message |-> <<" ","I","N","V","A","L","I","D"," ","R","E","S","O","U","R","C","E"," ","T","Y","P","E">>,
         cause |-> <<"T","h","e"," ","r","e","s","o","u","r","c","e"," ","t","y","p","e"," ","s","p","e","c","i","f","i","e","d"," ","i","s"," ","n","o","t"," ","v","a","l","i","d",".">>,
         solutions |-> << <<"C","h","e","c","k"," ","t","h","e"," ","r","e","s","o","u","r","c","e"," ","t","y","p","e"," ","s","p","e","l","l","i","n","g">>,
                          <<"V","e","r","i","f","y"," ","t","h","e"," ","A","P","I"," ","v","e","r","s","i","o","n"," ","s","u","p","p","o","r","t","s"," ","t","h","i","s"," ","r","e","s","o","u","r","c","e"," ","t","y","p","e">> >> ],
       [ code |-> <<"Q","u","o","t","a","E","x","c","e","e","d","e","d">>, message |-> <<" ","Q","U","O","T","A"," ","E","X","C","E","E","D","E","D">>,
         cause |-> <<"Y","o","u","'","v","e"," ","r","e","a","c","h","e","d"," ","t","h","e"," ","l","i","m","i","t"," ","f","o","r"," ","t","h","i","s"," ","r","e","s","o","u","r","c","e"," ","t","y","p","e"," ","i","n"," ","t","h","e"," ","r","e","g","i","o","n",".">>,
         solutions |-> << <<"T","r","y"," ","a"," ","d","i","f","f","e","r","e","n","t"," ","A","z","u","r","e"," ","r","e","g","i","o","n">>,
                          <<"R","e","q","u","e","s","t"," ","a"," ","q","u","o","t","a"," ","i","n","c","r","e","a","s","e"," ","v","i","a"," ","A","z","u","r","e"," ","p","o","r","t","a","l">>,
                          <<"D","e","l","e","t","e"," ","u","n","u","s","e","d"," ","r","e","s","o","u","r","c","e","s"," ","t","o"," ","f","r","e","e"," ","u","p"," ","q","u","o","t","a">> >> ],
       [ code |-> <<"C","o","n","f","l","i","c","t">>, message |-> <<" ","R","E","S","O","U","R","C","E"," ","C","O","N","F","L","I","C","T">>,
         cause |-> <<"A"," ","r","e","s","o","u","r","c","e"," ","w","i","t","h"," ","t","h","i","s"," ","n","a","m","e"," ","a","l","r","e","a","d","y"," ","e","x","i","s","t","s"," ","o","r"," ","i","s"," ","i","n"," ","a"," ","c","o","n","f","l","i","c","t","i","n","g"," ","s","t","a","t","e",".">>,
         solutions |-> << <<"U","s","e"," ","a"," ","d","i","f","f","e","r","e","n","t"," ","r","e","s","o","u","r","c","e"," ","n","a","m","e">>,
                          <<"W","a","i","t"," ","f","o","r"," ","a","n","y"," ","p","e","n","d","i","n","g"," ","o","p","e","r","a","t","i","o","n","s"," ","t","o"," ","c","o","m","p","l","e","t","e">>,
                          <<"D","e","l","e","t","e"," ","t","h","e"," ","e","x","i","s","t","i","n","g"," ","r","e","s","o","u","r","c","e"," ","i","f"," ","i","t","'","s"," ","n","o"," ","l","o","n","g","e","r"," ","n","e","e","d","e","d">> >> ],
       [ code |-> <<"I","n","v","a","l","i","d","P","a","r","a","m","e","t","e","r">>, message |-> <<" ","I","N","V","A","L","I","D"," ","P","A","R","A","M","E","T","E","R">>,
         cause |-> <<"O","n","e"," ","o","r"," ","m","o","r","e"," ","p","a","r","a","m","e","t","e","r","s"," ","a","r","e"," ","i","n","v","a","l","i","d",".">>,
         solutions |-> << <<"R","e","v","i","e","w"," ","t","h","e"," ","p","a","r","a","m","e","t","e","r"," ","v","a","l","u","e","s"," ","f","o","r"," ","t","y","p","o","s">>,
                          <<"C","h","e","c","k"," ","p","a","r","a","m","e","t","e","r"," ","c","o","n","s","t","r","a","i","n","t","s"," ","(","l","e","n","g","t","h",","," ","a","l","l","o","w","e","d"," ","v","a","l","u","e","s",","," ","f","o","r","m","a","t",")">> >> ],
       [ code |-> <<"P","r","i","v","a","t","e","E","n","d","p","o","i","n","t","C","a","n","n","o","t","B","e","C","r","e","a","t","e","d","I","n","S","u","b","n","e","t">>,
         message |-> <<" ","P","R","I","V","A","T","E"," ","E","N","D","P","O","I","N","T"," ","S","U","B","N","E","T"," ","E","R","R","O","R">>,
         cause |-> <<"T","h","e"," ","s","u","b","n","e","t"," ","c","a","n","n","o","t"," ","h","o","s","t"," ","p","r","i","v","a","t","e"," ","e","n","d","p","o","i","n","t","s",".">>,
         solutions |-> << <<"E","n","s","u","r","e"," ","'","p","r","i","v","a","t","e","E","n","d","p","o","i","n","t","N","e","t","w","o","r","k","P","o","l","i","c","i","e","s","'"," ","i","s"," ","s","e","t"," ","t","o"," ","'","D","i","s","a","b","l","e","d","'"," ","o","n"," ","t","h","e"," ","s","u","b","n","e","t">>,
                          <<"U","s","e"," ","a"," ","d","i","f","f","e","r","e","n","t"," ","s","u","b","n","e","t"," ","d","e","s","i","g","n","a","t","e","d"," ","f","o","r"," ","p","r","i","v","a","t","e"," ","e","n","d","p","o","i","n","t","s">> >> ] >>

\* ------------------------------------------------------------------------
\* External Command Runner (agent/utils.py)
\* ------------------------------------------------------------------------
\* What the operating system does with one spawned command:
\*   kind "exit"    the process ran and exited with code rc, having written
\*                  stdout and stderr (texts, already stripped);
\*   kind "timeout" subprocess.TimeoutExpired after 600 seconds;
\*   kind "spawn"   subprocess.run raised (executable missing, ...).
Exit(rc, out, err) == [ kind |-> "exit", rc |-> rc, stdout |-> out, stderr |-> err ]
TimedOut == [ kind |-> "timeout", rc |-> 0, stdout |-> <<>>, stderr |-> <<>> ]
SpawnFailed == [ kind |-> "spawn", rc |-> 0, stdout |-> <<>>, stderr |-> <<>> ]

\* the message box of one known error
ErrorBox(p) ==
    << <<>>, S_Rule, p.message, S_Rule, <<" ","C","a","u","s","e",":"," ">> \o p.cause, <<>>, <<" ","S","o","l","u","t","i","o","n","s",":">> >>
    \o [ i \in DOMAIN p.solutions |-> <<" "," ">> \o p.solutions[i] ]
    \o << S_Rule, <<>> >>

\* _detect_azure_error: the box of the first known error code found; the
\* empty text stands for the None of the source
DetectAzureError(output) ==
    With({ i \in DOMAIN AZURE_ERROR_PATTERNS :
             Contains(output, AZURE_ERROR_PATTERNS[i].code) },
         LAMBDA hits :
             IF hits = {} THEN <<>> ELSE ErrorBox(AZURE_ERROR_PATTERNS[Min(hits)]))

\* A command is a list of strings; subprocess.run and ' '.join both raise
\* TypeError when an element is None.
HasNoneArg(command) == \E i \in DOMAIN command : command[i] = None

Raised == [ raised |-> TRUE, text |-> <<>> ]
Returned(t) == [ raised |-> FALSE, text |-> t ]

ExitCodeLine(rc) == <<"[","E","x","i","t"," ","C","o","d","e",":"," ">> \o << ToString(rc) >> \o <<"]">>

\* run_command(command) when the operating system answers with o
RunCommand(command, o) ==
    IF HasNoneArg(command) THEN Raised
    ELSE IF o.kind = "timeout" THEN
        Returned(<< <<" ","E","R","R","O","R",":"," ","C","o","m","m","a","n","d"," ","t","i","m","e","d"," ","o","u","t"," ","a","f","t","e","r"," ","6","0","0"," ","s","e","c","o","n","d","s">>, <<>>,
                    <<"C","o","m","m","a","n","d",":"," ">> \o Join(command, <<" ">>), <<>>,
                    <<"T","h","i","s"," ","u","s","u","a","l","l","y"," ","i","n","d","i","c","a","t","e","s"," ","a"," ","h","a","n","g","i","n","g"," ","p","r","o","c","e","s","s"," ","o","r"," ","v","e","r","y"," ","s","l","o","w"," ","o","p","e","r","a","t","i","o","n",".">> >>)
    ELSE IF o.kind = "spawn" THEN
        Returned(<< <<" ","E","X","E","C","U","T","I","O","N"," ","E","R","R","O","R",":">>, <<>>, <<"C","o","m","m","a","n","d",":"," ">> \o Join(command, <<" ">>), <<>>,
                    <<"E","r","r","o","r",":"," ","[","W","i","n","E","r","r","o","r"," ","2","]"," ","T","h","e"," ","s","y","s","t","e","m"," ","c","a","n","n","o","t"," ","f","i","n","d"," ","t","h","e"," ","f","i","l","e"," ","s","p","e","c","i","f","i","e","d">>,
                    <<"E","r","r","o","r"," ","T","y","p","e",":"," ","F","i","l","e","N","o","t","F","o","u","n","d","E","r","r","o","r">> >>)
    ELSE
        LET tagged   == o.rc # 0 \/ ContainsAny(LowerText(o.stderr), STDERR_WORDS)
            p_stderr == IF o.stderr = <<>> THEN <<>>
                        ELSE IF tagged
                             THEN << <<>>, S_Rule, <<" ","E","R","R","O","R"," ","D","E","T","A","I","L","S",":">>, S_Rule >> \o o.stderr
                             ELSE o.stderr
            p_exit   == IF o.rc # 0 THEN << <<>>, ExitCodeLine(o.rc) >> ELSE <<>>
        IN  With(o.stdout \o p_stderr \o DetectAzureError(o.stdout \o o.stderr) \o p_exit,
                 LAMBDA parts :
                     Returned(IF parts = <<>> THEN << <<"C","o","m","m","a","n","d"," ","c","o","m","p","l","e","t","e","d"," ","w","i","t","h"," ","n","o"," ","o","u","t","p","u","t">> >>
                              ELSE parts))

\* ------------------------------------------------------------------------
\* Static tables of agent/utils.py (dicts as tuples of <<key, value>>, in
\* insertion order)
\* ------------------------------------------------------------------------
TEMPLATE_MAP ==
    <<
       << <<"s","t","o","r","a","g","e","-","a","c","c","o","u","n","t">>, <<"t","e","m","p","l","a","t","e","s","/","s","t","o","r","a","g","e","-","a","c","c","o","u","n","t",".","b","i","c","e","p">> >>,
       << <<"k","e","y","-","v","a","u","l","t">>, <<"t","e","m","p","l","a","t","e","s","/","a","z","u","r","e","-","k","e","y","-","v","a","u","l","t","s",".","b","i","c","e","p">> >>,
       << <<"o","p","e","n","a","i">>, <<"t","e","m","p","l","a","t","e","s","/","a","z","u","r","e","-","o","p","e","n","a","i",".","b","i","c","e","p">> >>,
       << <<"a","i","-","s","e","a","r","c","h">>, <<"t","e","m","p","l","a","t","e","s","/","a","i","-","s","e","a","r","c","h",".","b","i","c","e","p">> >>,
       << <<"a","i","-","f","o","u","n","d","r","y">>, <<"t","e","m","p","l","a","t","e","s","/","a","i","-","f","o","u","n","d","r","y",".","b","i","c","e","p">> >>,
       << <<"c","o","s","m","o","s","-","d","b">>, <<"t","e","m","p","l","a","t","e","s","/","c","o","s","m","o","s","-","d","b",".","b","i","c","e","p">> >>,
       << <<"l","o","g","-","a","n","a","l","y","t","i","c","s">>, <<"t","e","m","p","l","a","t","e","s","/","l","o","g","-","a","n","a","l","y","t","i","c","s",".","b","i","c","e","p">> >>,
       << <<"u","a","m","i">>, <<"t","e","m","p","l","a","t","e","s","/","u","s","e","r","-","a","s","s","i","g","n","e","d","-","m","a","n","a","g","e","d","-","i","d","e","n","t","i","t","y",".","b","i","c","e","p">> >>,
       << <<"u","s","e","r","-","a","s","s","i","g","n","e","d","-","m","a","n","a","g","e","d","-","i","d","e","n","t","i","t","y">>, <<"t","e","m","p","l","a","t","e","s","/","u","s","e","r","-","a","s","s","i","g","n","e","d","-","m","a","n","a","g","e","d","-","i","d","e","n","t","i","t","y",".","b","i","c","e","p">> >>,
       << <<"n","s","p">>, <<"t","e","m","p","l","a","t","e","s","/","n","e","t","w","o","r","k","-","s","e","c","u","r","i","t","y","-","p","e","r","i","m","e","t","e","r",".","b","i","c","e","p">> >>,
       << <<"n","e","t","w","o","r","k","-","s","e","c","u","r","i","t","y","-","p","e","r","i","m","e","t","e","r">>, <<"t","e","m","p","l","a","t","e","s","/","n","e","t","w","o","r","k","-","s","e","c","u","r","i","t","y","-","p","e","r","i","m","e","t","e","r",".","b","i","c","e","p">> >>,
       << <<"f","a","b","r","i","c","-","c","a","p","a","c","i","t","y">>, <<"t","e","m","p","l","a","t","e","s","/","f","a","b","r","i","c","-","c","a","p","a","c","i","t","y",".","b","i","c","e","p">> >>,
       << <<"c","o","n","t","a","i","n","e","r","-","r","e","g","i","s","t","r","y">>, <<"t","e","m","p","l","a","t","e","s","/","c","o","n","t","a","i","n","e","r","-","r","e","g","i","s","t","r","y",".","b","i","c","e","p">> >>,
       << <<"a","c","r">>, <<"t","e","m","p","l","a","t","e","s","/","c","o","n","t","a","i","n","e","r","-","r","e","g","i","s","t","r","y",".","b","i","c","e","p">> >>,
       << <<"f","u","n","c","t","i","o","n","-","a","p","p">>, <<"t","e","m","p","l","a","t","e","s","/","f","u","n","c","t","i","o","n","-","a","p","p",".","b","i","c","e","p">> >>,
       << <<"p","u","b","l","i","c","-","i","p">>, <<"t","e","m","p","l","a","t","e","s","/","p","u","b","l","i","c","-","i","p",".","b","i","c","e","p">> >>,
       << <<"p","i","p">>, <<"t","e","m","p","l","a","t","e","s","/","p","u","b","l","i","c","-","i","p",".","b","i","c","e","p">> >>,
       << <<"d","a","t","a","-","f","a","c","t","o","r","y">>, <<"t","e","m","p","l","a","t","e","s","/","a","z","u","r","e","-","d","a","t","a","-","f","a","c","t","o","r","y",".","b","i","c","e","p">> >>,
       << <<"a","z","u","r","e","-","d","a","t","a","-","f","a","c","t","o","r","y">>, <<"t","e","m","p","l","a","t","e","s","/","a","z","u","r","e","-","d","a","t","a","-","f","a","c","t","o","r","y",".","b","i","c","e","p">> >>,
       << <<"a","d","f">>, <<"t","e","m","p","l","a","t","e","s","/","a","z","u","r","e","-","d","a","t","a","-","f","a","c","t","o","r","y",".","b","i","c","e","p">> >>,
       << <<"s","y","n","a","p","s","e">>, <<"t","e","m","p","l","a","t","e","s","/","a","z","u","r","e","-","s","y","n","a","p","s","e","-","a","n","a","l","y","t","i","c","s",".","b","i","c","e","p">> >>,
       << <<"a","z","u","r","e","-","s","y","n","a","p","s","e","-","a","n","a","l","y","t","i","c","s">>, <<"t","e","m","p","l","a","t","e","s","/","a","z","u","r","e","-","s","y","n","a","p","s","e","-","a","n","a","l","y","t","i","c","s",".","b","i","c","e","p">> >>,
       << <<"n","s","g">>, <<"t","e","m","p","l","a","t","e","s","/","n","e","t","w","o","r","k","-","s","e","c","u","r","i","t","y","-","g","r","o","u","p",".","b","i","c","e","p">> >>,
       << <<"n","e","t","w","o","r","k","-","s","e","c","u","r","i","t","y","-","g","r","o","u","p">>, <<"t","e","m","p","l","a","t","e","s","/","n","e","t","w","o","r","k","-","s","e","c","u","r","i","t","y","-","g","r","o","u","p",".","b","i","c","e","p">> >>,
       << <<"v","n","e","t">>, <<"t","e","m","p","l","a","t","e","s","/","v","i","r","t","u","a","l","-","n","e","t","w","o","r","k",".","b","i","c","e","p">> >>,
       << <<"v","i","r","t","u","a","l","-","n","e","t","w","o","r","k">>, <<"t","e","m","p","l","a","t","e","s","/","v","i","r","t","u","a","l","-","n","e","t","w","o","r","k",".","b","i","c","e","p">> >>,
       << <<"s","u","b","n","e","t">>, <<"t","e","m","p","l","a","t","e","s","/","s","u","b","n","e","t",".","b","i","c","e","p">> >>,
       << <<"p","r","i","v","a","t","e","-","e","n","d","p","o","i","n","t">>, <<"t","e","m","p","l","a","t","e","s","/","p","r","i","v","a","t","e","-","e","n","d","p","o","i","n","t",".","b","i","c","e","p">> >>,
       << <<"p","e">>, <<"t","e","m","p","l","a","t","e","s","/","p","r","i","v","a","t","e","-","e","n","d","p","o","i","n","t",".","b","i","c","e","p">> >>,
       << <<"l","o","g","i","c","-","a","p","p">>, <<"t","e","m","p","l","a","t","e","s","/","l","o","g","i","c","-","a","p","p",".","b","i","c","e","p">> >> >>

RESOURCE_TYPE_PROVIDER_MAP ==
    <<
       << <<"n","s","p">>, <<"M","i","c","r","o","s","o","f","t",".","N","e","t","w","o","r","k","/","n","e","t","w","o","r","k","S","e","c","u","r","i","t","y","P","e","r","i","m","e","t","e","r","s">> >>,
       << <<"n","e","t","w","o","r","k","-","s","e","c","u","r","i","t","y","-","p","e","r","i","m","e","t","e","r">>, <<"M","i","c","r","o","s","o","f","t",".","N","e","t","w","o","r","k","/","n","e","t","w","o","r","k","S","e","c","u","r","i","t","y","P","e","r","i","m","e","t","e","r","s">> >>,
       << <<"l","o","g","-","a","n","a","l","y","t","i","c","s">>, <<"M","i","c","r","o","s","o","f","t",".","O","p","e","r","a","t","i","o","n","a","l","I","n","s","i","g","h","t","s","/","w","o","r","k","s","p","a","c","e","s">> >>,
       << <<"l","a","w">>, <<"M","i","c","r","o","s","o","f","t",".","O","p","e","r","a","t","i","o","n","a","l","I","n","s","i","g","h","t","s","/","w","o","r","k","s","p","a","c","e","s">> >>,
       << <<"s","t","o","r","a","g","e","-","a","c","c","o","u","n","t">>, <<"M","i","c","r","o","s","o","f","t",".","S","t","o","r","a","g","e","/","s","t","o","r","a","g","e","A","c","c","o","u","n","t","s">> >>,
       << <<"s","t","o","r","a","g","e">>, <<"M","i","c","r","o","s","o","f","t",".","S","t","o","r","a","g","e","/","s","t","o","r","a","g","e","A","c","c","o","u","n","t","s">> >>,
       << <<"k","e","y","-","v","a","u","l","t">>, <<"M","i","c","r","o","s","o","f","t",".","K","e","y","V","a","u","l","t","/","v","a","u","l","t","s">> >>,
       << <<"k","v">>, <<"M","i","c","r","o","s","o","f","t",".","K","e","y","V","a","u","l","t","/","v","a","u","l","t","s">> >>,
       << <<"o","p","e","n","a","i">>, <<"M","i","c","r","o","s","o","f","t",".","C","o","g","n","i","t","i","v","e","S","e","r","v","i","c","e","s","/","a","c","c","o","u","n","t","s">> >>,
       << <<"a","z","u","r","e","-","o","p","e","n","a","i">>, <<"M","i","c","r","o","s","o","f","t",".","C","o","g","n","i","t","i","v","e","S","e","r","v","i","c","e","s","/","a","c","c","o","u","n","t","s">> >>,
       << <<"a","i","-","s","e","a","r","c","h">>, <<"M","i","c","r","o","s","o","f","t",".","S","e","a","r","c","h","/","s","e","a","r","c","h","S","e","r","v","i","c","e","s">> >>,
       << <<"a","i","-","f","o","u","n","d","r","y">>, <<"M","i","c","r","o","s","o","f","t",".","C","o","g","n","i","t","i","v","e","S","e","r","v","i","c","e","s","/","a","c","c","o","u","n","t","s">> >>,
       << <<"a","i","-","s","e","r","v","i","c","e","s">>, <<"M","i","c","r","o","s","o","f","t",".","C","o","g","n","i","t","i","v","e","S","e","r","v","i","c","e","s","/","a","c","c","o","u","n","t","s">> >>,
       << <<"a","i","-","h","u","b">>, <<"M","i","c","r","o","s","o","f","t",".","M","a","c","h","i","n","e","L","e","a","r","n","i","n","g","S","e","r","v","i","c","e","s","/","w","o","r","k","s","p","a","c","e","s">> >>,
       << <<"a","i","-","p","r","o","j","e","c","t">>, <<"M","i","c","r","o","s","o","f","t",".","M","a","c","h","i","n","e","L","e","a","r","n","i","n","g","S","e","r","v","i","c","e","s","/","w","o","r","k","s","p","a","c","e","s">> >>,
       << <<"c","o","s","m","o","s","-","d","b">>, <<"M","i","c","r","o","s","o","f","t",".","D","o","c","u","m","e","n","t","D","B","/","d","a","t","a","b","a","s","e","A","c","c","o","u","n","t","s">> >>,
       << <<"c","o","s","m","o","s","d","b">>, <<"M","i","c","r","o","s","o","f","t",".","D","o","c","u","m","e","n","t","D","B","/","d","a","t","a","b","a","s","e","A","c","c","o","u","n","t","s">> >>,
       << <<"f","a","b","r","i","c","-","c","a","p","a","c","i","t","y">>, <<"M","i","c","r","o","s","o","f","t",".","F","a","b","r","i","c","/","c","a","p","a","c","i","t","i","e","s">> >>,
       << <<"f","a","b","r","i","c">>, <<"M","i","c","r","o","s","o","f","t",".","F","a","b","r","i","c","/","c","a","p","a","c","i","t","i","e","s">> >>,
       << <<"u","a","m","i">>, <<"M","i","c","r","o","s","o","f","t",".","M","a","n","a","g","e","d","I","d","e","n","t","i","t","y","/","u","s","e","r","A","s","s","i","g","n","e","d","I","d","e","n","t","i","t","i","e","s">> >>,
       << <<"u","s","e","r","-","a","s","s","i","g","n","e","d","-","m","a","n","a","g","e","d","-","i","d","e","n","t","i","t","y">>, <<"M","i","c","r","o","s","o","f","t",".","M","a","n","a","g","e","d","I","d","e","n","t","i","t","y","/","u","s","e","r","A","s","s","i","g","n","e","d","I","d","e","n","t","i","t","i","e","s">> >>,
       << <<"c","o","n","t","a","i","n","e","r","-","r","e","g","i","s","t","r","y">>, <<"M","i","c","r","o","s","o","f","t",".","C","o","n","t","a","i","n","e","r","R","e","g","i","s","t","r","y","/","r","e","g","i","s","t","r","i","e","s">> >>,
       << <<"a","c","r">>, <<"M","i","c","r","o","s","o","f","t",".","C","o","n","t","a","i","n","e","r","R","e","g","i","s","t","r","y","/","r","e","g","i","s","t","r","i","e","s">> >>,
       << <<"l","o","g","i","c","-","a","p","p">>, <<"M","i","c","r","o","s","o","f","t",".","L","o","g","i","c","/","w","o","r","k","f","l","o","w","s">> >>,
       << <<"f","u","n","c","t","i","o","n","-","a","p","p">>, <<"M","i","c","r","o","s","o","f","t",".","W","e","b","/","s","i","t","e","s">> >>,
       << <<"a","p","p","-","s","e","r","v","i","c","e">>, <<"M","i","c","r","o","s","o","f","t",".","W","e","b","/","s","i","t","e","s">> >>,
       << <<"s","y","n","a","p","s","e">>, <<"M","i","c","r","o","s","o","f","t",".","S","y","n","a","p","s","e","/","w","o","r","k","s","p","a","c","e","s">> >>,
       << <<"a","z","u","r","e","-","s","y","n","a","p","s","e","-","a","n","a","l","y","t","i","c","s">>, <<"M","i","c","r","o","s","o","f","t",".","S","y","n","a","p","s","e","/","w","o","r","k","s","p","a","c","e","s">> >>,
       << <<"d","a","t","a","-","f","a","c","t","o","r","y">>, <<"M","i","c","r","o","s","o","f","t",".","D","a","t","a","F","a","c","t","o","r","y","/","f","a","c","t","o","r","i","e","s">> >>,
       << <<"a","z","u","r","e","-","d","a","t","a","-","f","a","c","t","o","r","y">>, <<"M","i","c","r","o","s","o","f","t",".","D","a","t","a","F","a","c","t","o","r","y","/","f","a","c","t","o","r","i","e","s">> >>,
       << <<"a","d","f">>, <<"M","i","c","r","o","s","o","f","t",".","D","a","t","a","F","a","c","t","o","r","y","/","f","a","c","t","o","r","i","e","s">> >>,
       << <<"p","u","b","l","i","c","-","i","p">>, <<"M","i","c","r","o","s","o","f","t",".","N","e","t","w","o","r","k","/","p","u","b","l","i","c","I","P","A","d","d","r","e","s","s","e","s">> >>,
       << <<"p","i","p">>, <<"M","i","c","r","o","s","o","f","t",".","N","e","t","w","o","r","k","/","p","u","b","l","i","c","I","P","A","d","d","r","e","s","s","e","s">> >>,
       << <<"f","r","o","n","t","-","d","o","o","r">>, <<"M","i","c","r","o","s","o","f","t",".","N","e","t","w","o","r","k","/","f","r","o","n","t","D","o","o","r","s">> >>,
       << <<"n","s","g">>, <<"M","i","c","r","o","s","o","f","t",".","N","e","t","w","o","r","k","/","n","e","t","w","o","r","k","S","e","c","u","r","i","t","y","G","r","o","u","p","s">> >>,
       << <<"n","e","t","w","o","r","k","-","s","e","c","u","r","i","t","y","-","g","r","o","u","p">>, <<"M","i","c","r","o","s","o","f","t",".","N","e","t","w","o","r","k","/","n","e","t","w","o","r","k","S","e","c","u","r","i","t","y","G","r","o","u","p","s">> >>,
       << <<"v","n","e","t">>, <<"M","i","c","r","o","s","o","f","t",".","N","e","t","w","o","r","k","/","v","i","r","t","u","a","l","N","e","t","w","o","r","k","s">> >>,
       << <<"v","i","r","t","u","a","l","-","n","e","t","w","o","r","k">>, <<"M","i","c","r","o","s","o","f","t",".","N","e","t","w","o","r","k","/","v","i","r","t","u","a","l","N","e","t","w","o","r","k","s">> >>,
       << <<"s","u","b","n","e","t">>, <<"M","i","c","r","o","s","o","f","t",".","N","e","t","w","o","r","k","/","v","i","r","t","u","a","l","N","e","t","w","o","r","k","s","/","s","u","b","n","e","t","s">> >>,
       << <<"p","r","i","v","a","t","e","-","e","n","d","p","o","i","n","t">>, <<"M","i","c","r","o","s","o","f","t",".","N","e","t","w","o","r","k","/","p","r","i","v","a","t","e","E","n","d","p","o","i","n","t","s">> >>,
       << <<"p","e">>, <<"M","i","c","r","o","s","o","f","t",".","N","e","t","w","o","r","k","/","p","r","i","v","a","t","e","E","n","d","p","o","i","n","t","s">> >>,
       << <<"v","i","r","t","u","a","l","-","m","a","c","h","i","n","e">>, <<"M","i","c","r","o","s","o","f","t",".","C","o","m","p","u","t","e","/","v","i","r","t","u","a","l","M","a","c","h","i","n","e","s">> >>,
       << <<"v","m">>, <<"M","i","c","r","o","s","o","f","t",".","C","o","m","p","u","t","e","/","v","i","r","t","u","a","l","M","a","c","h","i","n","e","s">> >>,
       << <<"r","e","d","i","s","-","c","a","c","h","e">>, <<"M","i","c","r","o","s","o","f","t",".","C","a","c","h","e","/","r","e","d","i","s">> >>,
       << <<"r","e","d","i","s","-","e","n","t","e","r","p","r","i","s","e">>, <<"M","i","c","r","o","s","o","f","t",".","C","a","c","h","e","/","r","e","d","i","s","E","n","t","e","r","p","r","i","s","e">> >> >>

PIPELINE_TEMPLATE_MAP ==
    <<
       << <<"c","r","e","d","s","c","a","n">>, <<"t","e","m","p","l","a","t","e","s","/","c","r","e","d","s","c","a","n","_","P","i","p","e","l","i","n","e",".","y","m","l">> >>,
       << <<"c","r","e","d","s","c","a","n","-","1","e","s">>, <<"t","e","m","p","l","a","t","e","s","/","c","r","e","d","s","c","a","n","_","1","E","S","_","P","i","p","e","l","i","n","e",".","y","m","l">> >> >>

PIPELINE_TYPE_KEYWORDS ==
    <<
       << <<"1","e","s">>, <<"c","r","e","d","s","c","a","n","-","1","e","s">> >>,
       << <<"p","r","o","d">>, <<"c","r","e","d","s","c","a","n","-","1","e","s">> >>,
       << <<"p","r","o","d","u","c","t","i","o","n">>, <<"c","r","e","d","s","c","a","n","-","1","e","s">> >>,
       << <<"c","r","e","d","s","c","a","n">>, <<"c","r","e","d","s","c","a","n">> >> >>

OP_SCRIPTS ==
    <<
       << <<"p","e","r","m","i","s","s","i","o","n","s">>, <<"l","i","s","t","-","a","z","u","r","e","-","p","e","r","m","i","s","s","i","o","n","s",".","p","s","1">> >>,
       << <<"r","e","s","o","u","r","c","e","s">>, <<"l","i","s","t","-","r","e","s","o","u","r","c","e","s",".","p","s","1">> >>,
       << <<"c","r","e","a","t","e","-","r","g">>, <<"c","r","e","a","t","e","-","r","e","s","o","u","r","c","e","g","r","o","u","p",".","p","s","1">> >>,
       << <<"d","e","p","l","o","y","-","b","i","c","e","p">>, <<"d","e","p","l","o","y","-","b","i","c","e","p",".","p","s","1">> >>,
       << <<"p","o","s","t","-","d","e","p","l","o","y","-","f","u","n","c","t","i","o","n","-","a","p","p">>, <<"p","o","s","t","-","d","e","p","l","o","y","-","f","u","n","c","t","i","o","n","-","a","p","p",".","p","s","1">> >> >>

NSP_MANDATORY_RESOURCES ==
    << <<"s","t","o","r","a","g","e","-","a","c","c","o","u","n","t">>,
       <<"k","e","y","-","v","a","u","l","t">>,
       <<"c","o","s","m","o","s","-","d","b">>,
       <<"s","q","l","-","d","b">> >>

LOG_ANALYTICS_MANDATORY_RESOURCES ==
    << <<"l","o","g","i","c","-","a","p","p">>,
       <<"f","u","n","c","t","i","o","n","-","a","p","p">>,
       <<"a","p","p","-","s","e","r","v","i","c","e">>,
       <<"k","e","y","-","v","a","u","l","t">>,
       <<"k","v">>,
       <<"o","p","e","n","a","i">>,
       <<"a","z","u","r","e","-","o","p","e","n","a","i">>,
       <<"s","y","n","a","p","s","e">>,
       <<"a","z","u","r","e","-","s","y","n","a","p","s","e","-","a","n","a","l","y","t","i","c","s">>,
       <<"d","a","t","a","-","f","a","c","t","o","r","y">>,
       <<"a","z","u","r","e","-","d","a","t","a","-","f","a","c","t","o","r","y">>,
       <<"a","d","f">>,
       <<"a","i","-","h","u","b">>,
       <<"a","i","-","p","r","o","j","e","c","t">>,
       <<"a","i","-","f","o","u","n","d","r","y">>,
       <<"a","i","-","s","e","r","v","i","c","e","s">>,
       <<"a","i","-","s","e","a","r","c","h">>,
       <<"f","r","o","n","t","-","d","o","o","r">>,
       <<"v","i","r","t","u","a","l","-","m","a","c","h","i","n","e">>,
       <<"v","m">>,
       <<"r","e","d","i","s","-","c","a","c","h","e">>,
       <<"r","e","d","i","s","-","e","n","t","e","r","p","r","i","s","e">>,
       <<"c","o","n","t","a","i","n","e","r","-","r","e","g","i","s","t","r","y">>,
       <<"a","c","r">> >>

\* key in d / d[key] / d.keys()
HasKey(d, k) == \E i \in DOMAIN d : d[i][1] = k
Get(d, k) == d[CHOOSE i \in DOMAIN d : d[i][1] = k][2]
Keys(d) == [ i \in DOMAIN d |-> d[i][1] ]

\* x in list
InList(l, x) == \E i \in DOMAIN l : l[i] = x

\* get_script_path / get_template_path: the path below the package directory
get_script_path(script_name) == <<"s","c","r","i","p","t","s","/">> \o script_name
get_template_path(template_rel) == template_rel

\* "pwsh" if shutil.which("pwsh") else "powershell"
ps_executable(has_pwsh) == IF has_pwsh THEN <<"p","w","s","h">> ELSE <<"p","o","w","e","r","s","h","e","l","l">>

\* ------------------------------------------------------------------------
\* Regular-expression searches of check_resource, on the flat text
\* ------------------------------------------------------------------------
NL == "\n"
Flat(t) == Join(t, << NL >>)

\* the characters \s matches
RegexSpace == Whitespace \cup { NL }

RECURSIVE SkipSpace(_)
SkipSpace(s) == IF s # <<>> /\ Head(s) \in RegexSpace THEN SkipSpace(Tail(s)) ELSE s

\* the longest prefix of s holding no character of stop
RECURSIVE TakeUntil(_, _)
TakeUntil(s, stop) ==
    IF s = <<>> \/ Head(s) \in stop THEN <<>> ELSE << Head(s) >> \o TakeUntil(Tail(s), stop)

\* the text that follows the first occurrence of marker in s
After(s, marker) == SubSeq(s, IndexOf(s, marker) + Len(marker), Len(s))

NoMatch == [ found |-> FALSE, group |-> <<>> ]
Match(g) == [ found |-> TRUE, group |-> g ]

\* re.search(marker + r'\s*(.+)', s), then group(1).strip().  \s* runs over
\* newlines; (.+) needs one character that is not a newline, which a
\* backtracking \s* hands back when only white space follows the marker.
SearchRest(s, marker) ==
    IF ~ContainsStr(s, marker) THEN NoMatch
    ELSE LET rem == After(s, marker)
         IN  IF \A i \in DOMAIN rem : rem[i] = NL THEN NoMatch
             ELSE Match(Strip(TakeUntil(SkipSpace(rem), { NL })))

\* re.search(r'Name:\s*([^,]+)', line), then group(1).strip(), on one line
SearchName(line) ==
    IF ~ContainsStr(line, <<"N","a","m","e",":">>) THEN NoMatch
    ELSE LET rem == After(line, <<"N","a","m","e",":">>)
         IN  IF rem = <<>> \/ Head(rem) = "," THEN NoMatch
             ELSE Match(Strip(TakeUntil(SkipSpace(rem), { "," })))

DigitValue(c) == CHOOSE n \in 0..9 : ToString(n) = c

\* int(digits)
RECURSIVE ToInt(_)
ToInt(ds) == IF ds = <<>> THEN 0 ELSE 10 * ToInt(SubSeq(ds, 1, Len(ds) - 1)) + DigitValue(ds[Len(ds)])

TakeDigits(s) == TakeUntil(s, { c \in ToSet(s) : c \notin Digits })

\* re.search(r'COUNT:\s*(\d+)', s): the first occurrence of the marker that
\* is followed, after white space, by a digit
SearchCount(s) ==
    LET hits == { i \in Occurrences(s, <<"C","O","U","N","T",":">>) :
                    TakeDigits(SkipSpace(SubSeq(s, i + 6, Len(s)))) # <<>> }
    IN  IF hits = {} THEN [ found |-> FALSE, n |-> 0 ]
        ELSE [ found |-> TRUE,
               n |-> ToInt(TakeDigits(SkipSpace(SubSeq(s, Min(hits) + 6, Len(s))))) ]

\* ------------------------------------------------------------------------
\* Resource Lookup (agent/azure.py, check_resource)
\* ------------------------------------------------------------------------
\* The JSON object check_resource returns, as a record.  json.dumps followed
\* by json.loads gives back the same strings, integers and lists, so the
\* callers' parsed object is this record.  A key the object does not carry is
\* marked by has_error / has_count / has_selection; a resource without an
\* "id" key has id = None.
\*   ret       which return statement produced the object
\*   command   the command handed to run_command, <<>> when none was run
CheckData(ret, has_error, has_count, count, resources, has_selection, command) ==
    [ ret |-> ret, has_error |-> has_error, has_count |-> has_count, count |-> count,
      resources |-> resources, has_selection |-> has_selection,
      requires_selection |-> has_selection /\ count > 1, command |-> command ]

\* check_data.get("count", 0)
GetCount(check_data) == IF check_data.has_count THEN check_data.count ELSE 0

\* the test `check_data.get("count", 0) == 0` that sends a workflow into its
\* create branch
NeedsCreateOffByOne(check_data) == GetCount(check_data) <= 1

NeedsCreate(check_data) == GetCount(check_data) = 0

\* [{"name": n, "id": i} for n, i in zip(names, ids)] if ids else [{"name": n} for n in names]
MinLen(a, b) == IF Len(a) <= Len(b) THEN Len(a) ELSE Len(b)
Resources(names, ids) ==
    IF ids # <<>>
    THEN [ i \in 1..MinLen(names, ids) |-> [ name |-> names[i], id |-> ids[i] ] ]
    ELSE [ i \in DOMAIN names |-> [ name |-> names[i], id |-> None ] ]

\* the loop over result.split('\n') of the multiple-resources branch: acc
\* holds resource_names and resource_ids
RECURSIVE ListLoop(_, _)
ListLoop(lines, acc) ==
    IF lines = <<>> THEN acc
    ELSE LET line  == Head(lines)
             isItem == Len(Strip(line)) >= 7 /\ SubSeq(Strip(line), 1, 7) = <<"-"," ","N","a","m","e",":">>
             name_match == SearchName(line)
             id_match_line == SearchRest(line, <<"I","D",":">>)
             names1 == IF InList(acc.names, name_match.group) THEN acc.names
                       ELSE Append(acc.names, name_match.group)
             ids1   == IF id_match_line.found THEN Append(acc.ids, id_match_line.group)
                       ELSE acc.ids
         IN  IF isItem /\ name_match.found
             THEN ListLoop(Tail(lines), [ names |-> names1, ids |-> ids1 ])
             ELSE ListLoop(Tail(lines), acc)

\* resource_type.lower().strip(), then the NSP synonym rule
NormalizeType(resource_type) ==
    LET t == Strip(Lower(resource_type))
    IN  IF ContainsStr(t, <<"n","e","t","w","o","r","k">>) /\ ContainsStr(t, <<"s","e","c","u","r","i","t","y">>) /\ ContainsStr(t, <<"p","e","r","i","m","e","t","e","r">>)
        THEN <<"n","s","p">> ELSE t

CheckCommand(resource_group, rtype, has_pwsh) ==
    << ps_executable(has_pwsh), <<"-","E","x","e","c","u","t","i","o","n","P","o","l","i","c","y">>, <<"B","y","p","a","s","s">>, <<"-","F","i","l","e">>,
       get_script_path(<<"c","h","e","c","k","-","r","e","s","o","u","r","c","e",".","p","s","1">>),
       <<"-","R","e","s","o","u","r","c","e","G","r","o","u","p","N","a","m","e">>, resource_group,
       <<"-","R","e","s","o","u","r","c","e","T","y","p","e">>, rtype,
       <<"-","P","r","o","v","i","d","e","r","T","y","p","e">>, Get(RESOURCE_TYPE_PROVIDER_MAP, rtype) >>

\* check_resource(resource_group, resource_type) in an environment e:
\*   e.has_pwsh, e.has_script (check-resource.ps1 exists), e.os (what the
\*   operating system does with the command)
check_resource(resource_group, resource_type, e) ==
    IF Falsy(resource_group) \/ Strip(resource_group) = <<>>
    THEN CheckData("invalid_rg", TRUE, FALSE, 0, <<>>, FALSE, <<>>)
    ELSE
    With(NormalizeType(resource_type), LAMBDA rtype :
    IF ~HasKey(RESOURCE_TYPE_PROVIDER_MAP, rtype)
    THEN CheckData("invalid_type", TRUE, FALSE, 0, <<>>, FALSE, <<>>)
    ELSE IF ~e.has_script
    THEN CheckData("no_script", TRUE, FALSE, 0, <<>>, FALSE, <<>>)
    ELSE
    With(CheckCommand(resource_group, rtype, e.has_pwsh), LAMBDA command :
    With(RunCommand(command, e.os).text, LAMBDA result :
    With(Flat(result), LAMBDA flat :
    With(SearchRest(flat, <<"R","E","S","O","U","R","C","E"," ","F","O","U","N","D",":">>), LAMBDA found_match :
    With(SearchRest(flat, <<"R","E","S","O","U","R","C","E"," ","I","D",":">>), LAMBDA id_match :
    With(SearchCount(flat), LAMBDA count_match :
    With(IF found_match.found THEN << found_match.group >> ELSE <<>>, LAMBDA names0 :
    With(IF id_match.found THEN << id_match.group >> ELSE <<>>, LAMBDA ids0 :
    With(ListLoop(result, [ names |-> names0, ids |-> ids0 ]), LAMBDA listed :
        IF Contains(result, <<"R","E","S","O","U","R","C","E"," ","N","O","T"," ","F","O","U","N","D">>)
        THEN CheckData("not_found", FALSE, TRUE, 0, <<>>, FALSE, command)
        ELSE IF Contains(result, <<"M","U","L","T","I","P","L","E"," ","R","E","S","O","U","R","C","E","S"," ","F","O","U","N","D">>)
        THEN CheckData("multiple", FALSE, TRUE,
                       IF count_match.found THEN count_match.n ELSE 1,
                       Resources(listed.names, listed.ids), TRUE, command)
        ELSE IF names0 # <<>>
        THEN CheckData("found", FALSE, TRUE, Len(names0), Resources(names0, ids0), FALSE, command)
        ELSE CheckData("unparsed", FALSE, TRUE, 0, <<>>, FALSE, command)))))))))))

\* ------------------------------------------------------------------------
\* Dicts with string keys: tuples of <<key, value>> in insertion order
\* ------------------------------------------------------------------------
\* d.get(k, default)
DictGet(d, k, default) == IF HasKey(d, k) THEN Get(d, k) ELSE default

\* d[k] = v
DictSet(d, k, v) ==
    IF HasKey(d, k) THEN [ i \in DOMAIN d |-> IF d[i][1] = k THEN << k, v >> ELSE d[i] ]
    ELSE Append(d, << k, v >>)

\* str(v) of an optional string
Str(v) == IF v = None THEN <<"N","o","n","e">> ELSE v

\* [x for x in l if keep(x)] for the index set keep
RECURSIVE Filter(_, _)
Filter(l, keep) ==
    IF l = <<>> THEN <<>>
    ELSE LET rest == Filter(Tail(l), { i - 1 : i \in keep \ {1} })
         IN  IF 1 \in keep THEN << Head(l) >> \o rest ELSE rest

\* ------------------------------------------------------------------------
\* Template Parameter Introspector (agent/utils.py, parse_bicep_parameters)
\* ------------------------------------------------------------------------
\* A template file is [exists, lines]; reading a file that does not exist
\* raises inside the try block and leaves the schema empty.
WordChars == ToSet(UpperAlpha) \cup ToSet(LowerAlpha) \cup Digits \cup { "_" }

\* the longest prefix of s made of characters of set
RECURSIVE TakeWhile(_, _)
TakeWhile(s, set) ==
    IF s = <<>> \/ Head(s) \notin set THEN <<>> ELSE << Head(s) >> \o TakeWhile(Tail(s), set)

Drop(s, n) == SubSeq(s, n + 1, Len(s))

\* re.match(r"param\s+(\w+)\s+[^=\n]+(?:=\s*(.+))?", line_strip) for a
\* stripped line: [matched, name, default], default = None when group 2 is
\* absent
ParamMatch(line_strip) ==
    LET afterKw  == Drop(line_strip, 5)
        afterWs  == SkipSpace(afterKw)
        name     == TakeWhile(afterWs, WordChars)
        rest     == Drop(afterWs, Len(name))
        typePart == TakeUntil(rest, { "=" })
        tail     == Drop(rest, Len(typePart))
        group2   == IF tail = <<>> THEN <<>> ELSE Tail(tail)
    IN  IF Len(line_strip) < 5 \/ SubSeq(line_strip, 1, 5) # <<"p","a","r","a","m">>
           \/ afterKw = <<>> \/ Head(afterKw) \notin RegexSpace
           \/ name = <<>>
           \/ rest = <<>> \/ Head(rest) \notin RegexSpace
           \/ Len(typePart) < 2
        THEN [ matched |-> FALSE, name |-> <<>>, default |-> None ]
        ELSE [ matched |-> TRUE, name |-> name,
               default |-> IF group2 = <<>> THEN None ELSE Strip(group2) ]

\* the schema: a dict name -> (required, default), as a tuple of records
SchemaSet(params, name, required, default) ==
    LET entry == [ name |-> name, required |-> required, default |-> default ]
    IN  IF \E i \in DOMAIN params : params[i].name = name
        THEN [ i \in DOMAIN params |-> IF params[i].name = name THEN entry ELSE params[i] ]
        ELSE Append(params, entry)

RECURSIVE ParseLines(_, _)
ParseLines(lines, params) ==
    IF lines = <<>> THEN params
    ELSE With(Strip(Head(lines)), LAMBDA line_strip :
         With(ParamMatch(line_strip), LAMBDA m :
             IF Len(line_strip) >= 6 /\ SubSeq(line_strip, 1, 6) = <<"p","a","r","a","m"," ">> /\ m.matched
             THEN ParseLines(Tail(lines),
                             SchemaSet(params, m.name, m.default = None, m.default))
             ELSE ParseLines(Tail(lines), params)))

parse_bicep_parameters(template) ==
    IF template.exists THEN ParseLines(template.lines, <<>>) ELSE <<>>

\* ------------------------------------------------------------------------
\* Parameter Validator (agent/utils.py, validate_bicep_parameters)
\* ------------------------------------------------------------------------
\* provided[p] in (None, "") or p not in provided
AbsentKeyOnly(provided, p) == ~HasKey(provided, p)

Absent(provided, p) == ~HasKey(provided, p) \/ Falsy(Get(provided, p))

Names(params) == [ i \in DOMAIN params |-> params[i].name ]

AutoCalculatedValidate(resource_type) ==
    IF resource_type = <<"s","u","b","n","e","t">> THEN << <<"s","u","b","n","e","t","S","t","a","r","t","i","n","g","A","d","d","r","e","s","s">> >>
    ELSE IF resource_type = <<"f","a","b","r","i","c","-","c","a","p","a","c","i","t","y">> THEN << <<"l","o","c","a","t","i","o","n">> >>
    ELSE <<>>

\* the list `missing` of validate_bicep_parameters
MissingRequired(params, auto_calculated, provided) ==
    Names(Filter(params, { i \in DOMAIN params :
                             /\ params[i].required
                             /\ ~InList(auto_calculated, params[i].name)
                             /\ Absent(provided, params[i].name) }))

\* validate_bicep_parameters(resource_type, provided) with the template file
\* of the type being `template`: the tuple (ok, msg, params) as a record
validate_bicep_parameters(resource_type, provided, template) ==
    IF ~HasKey(TEMPLATE_MAP, resource_type)
    THEN [ ok |-> FALSE, msg |-> <<"U","n","k","n","o","w","n"," ","r","e","s","o","u","r","c","e","_","t","y","p","e"," ","'">> \o resource_type \o <<"'",".">>,
           params |-> <<>>, missing |-> <<>> ]
    ELSE IF ~template.exists
    THEN [ ok |-> FALSE,
           msg |-> <<"T","e","m","p","l","a","t","e"," ","n","o","t"," ","f","o","u","n","d"," ","a","t"," ">>
                   \o get_template_path(Get(TEMPLATE_MAP, resource_type)),
           params |-> <<>>, missing |-> <<>> ]
    ELSE With(parse_bicep_parameters(template), LAMBDA params :
         With(MissingRequired(params, AutoCalculatedValidate(resource_type), provided),
              LAMBDA missing :
             IF missing # <<>>
             THEN [ ok |-> FALSE,
                    msg |-> <<"M","i","s","s","i","n","g"," ","r","e","q","u","i","r","e","d"," ","p","a","r","a","m","e","t","e","r","s",":"," ">> \o Join(missing, <<","," ">>),
                    params |-> params, missing |-> missing ]
             ELSE [ ok |-> TRUE, msg |-> <<"O","K">>, params |-> params, missing |-> <<>> ]))

\* ------------------------------------------------------------------------
\* format_deployment_details (agent/utils.py)
\* ------------------------------------------------------------------------

\* parameters.get(key, "N/A") inside an f-string
P(parameters, key) == Str(DictGet(parameters, key, <<"N","/","A">>))

\* parameters.get(key, "true").lower() raises AttributeError on None
LowerRaises(parameters, key) == HasKey(parameters, key) /\ Get(parameters, key) = None

IsTrue(parameters, key) == Lower(DictGet(parameters, key, <<"t","r","u","e">>)) = <<"t","r","u","e">>

\* the first of name_keys that is a key of parameters, as a one-element
\* tuple; <<>> when there is none
FirstKey(name_keys, parameters) ==
    LET hits == { i \in DOMAIN name_keys : HasKey(parameters, name_keys[i]) }
    IN  IF hits = {} THEN <<>> ELSE << name_keys[Min(hits)] >>

DetailLines(resource_type, parameters) ==
    LET location == P(parameters, <<"l","o","c","a","t","i","o","n">>) IN
    IF resource_type = <<"s","t","o","r","a","g","e","-","a","c","c","o","u","n","t">> THEN
        LET storage_name == P(parameters, <<"s","t","o","r","a","g","e","A","c","c","o","u","n","t","N","a","m","e">>) IN
        << <<" "," "," ","S","t","o","r","a","g","e"," ","A","c","c","o","u","n","t",":"," ">> \o storage_name,
           <<" "," "," ","L","o","c","a","t","i","o","n",":"," ">> \o location,
           <<" "," "," ","A","c","c","e","s","s"," ","T","i","e","r",":"," ">> \o P(parameters, <<"a","c","c","e","s","s","T","i","e","r">>),
           <<" "," "," ","A","D","L","S"," ","G","e","n","2",":"," ">> \o (IF IsTrue(parameters, <<"e","n","a","b","l","e","H","i","e","r","a","r","c","h","i","c","a","l","N","a","m","e","s","p","a","c","e">>)
                                  THEN <<"E","n","a","b","l","e","d">> ELSE <<"D","i","s","a","b","l","e","d">>),
           <<" "," "," ","B","l","o","b"," ","E","n","d","p","o","i","n","t",":"," ","h","t","t","p","s",":","/","/">> \o storage_name \o <<".","b","l","o","b",".","c","o","r","e",".","w","i","n","d","o","w","s",".","n","e","t","/">>,
           <<" "," "," ","D","F","S"," ","E","n","d","p","o","i","n","t",":"," ","h","t","t","p","s",":","/","/">> \o storage_name \o <<".","d","f","s",".","c","o","r","e",".","w","i","n","d","o","w","s",".","n","e","t","/">> >>
    ELSE IF resource_type = <<"k","e","y","-","v","a","u","l","t">> THEN
        << <<" "," "," ","K","e","y"," ","V","a","u","l","t",":"," ">> \o P(parameters, <<"k","e","y","V","a","u","l","t","N","a","m","e">>),
           <<" "," "," ","L","o","c","a","t","i","o","n",":"," ">> \o location,
           <<" "," "," ","V","a","u","l","t"," ","U","R","I",":"," ","h","t","t","p","s",":","/","/">> \o P(parameters, <<"k","e","y","V","a","u","l","t","N","a","m","e">>) \o <<".","v","a","u","l","t",".","a","z","u","r","e",".","n","e","t","/">> >>
    ELSE IF resource_type = <<"c","o","s","m","o","s","-","d","b">> THEN
        << <<" "," "," ","C","o","s","m","o","s"," ","D","B"," ","A","c","c","o","u","n","t",":"," ">> \o P(parameters, <<"c","o","s","m","o","s","A","c","c","o","u","n","t","N","a","m","e">>),
           <<" "," "," ","L","o","c","a","t","i","o","n",":"," ">> \o location >>
    ELSE IF resource_type = <<"o","p","e","n","a","i">> THEN
        << <<" "," "," ","A","z","u","r","e"," ","O","p","e","n","A","I",":"," ">> \o P(parameters, <<"o","p","e","n","A","I","S","e","r","v","i","c","e","N","a","m","e">>),
           <<" "," "," ","L","o","c","a","t","i","o","n",":"," ">> \o location,
           <<" "," "," ","E","n","d","p","o","i","n","t",":"," ","h","t","t","p","s",":","/","/">> \o P(parameters, <<"o","p","e","n","A","I","S","e","r","v","i","c","e","N","a","m","e">>) \o <<".","o","p","e","n","a","i",".","a","z","u","r","e",".","c","o","m","/">> >>
    ELSE IF resource_type = <<"a","i","-","s","e","a","r","c","h">> THEN
        << <<" "," "," ","A","I"," ","S","e","a","r","c","h"," ","S","e","r","v","i","c","e",":"," ">> \o P(parameters, <<"s","e","a","r","c","h","S","e","r","v","i","c","e","N","a","m","e">>),
           <<" "," "," ","L","o","c","a","t","i","o","n",":"," ">> \o location,
           <<" "," "," ","S","K","U",":"," ">> \o Str(DictGet(parameters, <<"s","k","u">>, <<"s","t","a","n","d","a","r","d">>)),
           <<" "," "," ","E","n","d","p","o","i","n","t",":"," ","h","t","t","p","s",":","/","/">> \o P(parameters, <<"s","e","a","r","c","h","S","e","r","v","i","c","e","N","a","m","e">>) \o <<".","s","e","a","r","c","h",".","w","i","n","d","o","w","s",".","n","e","t","/">> >>
    ELSE IF resource_type = <<"l","o","g","-","a","n","a","l","y","t","i","c","s">> THEN
        << <<" "," "," ","L","o","g"," ","A","n","a","l","y","t","i","c","s"," ","W","o","r","k","s","p","a","c","e",":"," ">> \o P(parameters, <<"w","o","r","k","s","p","a","c","e","N","a","m","e">>),
           <<" "," "," ","L","o","c","a","t","i","o","n",":"," ">> \o location >>
    ELSE IF resource_type = <<"c","o","n","t","a","i","n","e","r","-","r","e","g","i","s","t","r","y">> THEN
        << <<" "," "," ","C","o","n","t","a","i","n","e","r"," ","R","e","g","i","s","t","r","y",":"," ">> \o P(parameters, <<"r","e","g","i","s","t","r","y","N","a","m","e">>),
           <<" "," "," ","L","o","c","a","t","i","o","n",":"," ">> \o location,
           <<" "," "," ","S","K","U",":"," ">> \o P(parameters, <<"s","k","u">>),
           <<" "," "," ","L","o","g","i","n"," ","S","e","r","v","e","r",":"," ">> \o P(parameters, <<"r","e","g","i","s","t","r","y","N","a","m","e">>) \o <<".","a","z","u","r","e","c","r",".","i","o">> >>
    ELSE IF resource_type = <<"f","u","n","c","t","i","o","n","-","a","p","p">> THEN
        << <<" "," "," ","F","u","n","c","t","i","o","n"," ","A","p","p",":"," ">> \o P(parameters, <<"f","u","n","c","t","i","o","n","A","p","p","N","a","m","e">>),
           <<" "," "," ","L","o","c","a","t","i","o","n",":"," ">> \o location,
           <<" "," "," ","H","o","s","t","i","n","g"," ","P","l","a","n",":"," ">> \o P(parameters, <<"h","o","s","t","i","n","g","P","l","a","n","T","y","p","e">>),
           <<" "," "," ","R","u","n","t","i","m","e",":"," ">> \o P(parameters, <<"r","u","n","t","i","m","e","S","t","a","c","k">>),
           <<" "," "," ","U","R","L",":"," ","h","t","t","p","s",":","/","/">> \o P(parameters, <<"f","u","n","c","t","i","o","n","A","p","p","N","a","m","e">>) \o <<".","a","z","u","r","e","w","e","b","s","i","t","e","s",".","n","e","t">>,
           <<>>,
           <<"S","t","o","r","a","g","e"," ","c","o","n","t","a","i","n","e","r","s"," ","c","r","e","a","t","e","d"," ","a","u","t","o","m","a","t","i","c","a","l","l","y">>,
           <<>>,
           <<" "," "," "," ","A","D","M","I","N"," ","A","C","T","I","O","N"," ","R","E","Q","U","I","R","E","D",":">>,
           <<" "," "," ","A","n"," ","a","d","m","i","n"," ","w","i","t","h"," ","O","w","n","e","r"," ","r","o","l","e"," ","m","u","s","t"," ","a","s","s","i","g","n"," ","'","S","t","o","r","a","g","e"," ","B","l","o","b"," ","D","a","t","a"," ","O","w","n","e","r","'">>,
           <<" "," "," ","t","o"," ","t","h","e"," ","F","u","n","c","t","i","o","n"," ","A","p","p","'","s"," ","m","a","n","a","g","e","d"," ","i","d","e","n","t","i","t","y",","," ","t","h","e","n"," ","r","e","s","t","a","r","t"," ","t","h","e"," ","a","p","p",".">> >>
    ELSE IF resource_type \in { <<"a","z","u","r","e","-","s","y","n","a","p","s","e","-","a","n","a","l","y","t","i","c","s">>, <<"s","y","n","a","p","s","e">> } THEN
        << <<" "," "," ","S","y","n","a","p","s","e"," ","W","o","r","k","s","p","a","c","e",":"," ">> \o P(parameters, <<"s","y","n","a","p","s","e","N","a","m","e">>),
           <<" "," "," ","L","o","c","a","t","i","o","n",":"," ">> \o location,
           <<" "," "," ","S","t","o","r","a","g","e"," ","A","c","c","o","u","n","t",":"," ">> \o P(parameters, <<"s","t","o","r","a","g","e","A","c","c","o","u","n","t","N","a","m","e">>),
           <<" "," "," ","F","i","l","e","s","y","s","t","e","m","/","C","o","n","t","a","i","n","e","r",":"," ">> \o P(parameters, <<"f","i","l","e","s","y","s","t","e","m","N","a","m","e">>),
           <<" "," "," ","S","t","o","r","a","g","e"," ","C","r","e","a","t","e","d",":"," ">> \o (IF IsTrue(parameters, <<"c","r","e","a","t","e","S","t","o","r","a","g","e","A","c","c","o","u","n","t">>)
                                        THEN <<"Y","e","s">> ELSE <<"N","o"," ","(","e","x","i","s","t","i","n","g",")">>),
           <<" "," "," ","C","o","n","t","a","i","n","e","r"," ","C","r","e","a","t","e","d",":"," ">> \o (IF IsTrue(parameters, <<"c","r","e","a","t","e","C","o","n","t","a","i","n","e","r">>)
                                          THEN <<"Y","e","s">> ELSE <<"N","o"," ","(","e","x","i","s","t","i","n","g",")">>),
           <<" "," "," ","S","y","n","a","p","s","e"," ","S","t","u","d","i","o",":"," ","h","t","t","p","s",":","/","/","w","e","b",".","a","z","u","r","e","s","y","n","a","p","s","e",".","n","e","t","?","w","o","r","k","s","p","a","c","e","=","%","2","F","s","u","b","s","c","r","i","p","t","i","o","n","s","%","2","F",".",".",".","%","2","F">>
               \o P(parameters, <<"s","y","n","a","p","s","e","N","a","m","e">>),
           <<>>,
           <<" "," "," "," ","A","D","M","I","N"," ","A","C","T","I","O","N"," ","R","E","Q","U","I","R","E","D",":">>,
           <<" "," "," ","A","n"," ","a","d","m","i","n"," ","w","i","t","h"," ","O","w","n","e","r","/","U","s","e","r"," ","A","c","c","e","s","s"," ","A","d","m","i","n","i","s","t","r","a","t","o","r"," ","r","o","l","e"," ","m","u","s","t"," ","a","s","s","i","g","n">>,
           <<" "," "," ","'","S","t","o","r","a","g","e"," ","B","l","o","b"," ","D","a","t","a"," ","C","o","n","t","r","i","b","u","t","o","r","'"," ","r","o","l","e"," ","t","o"," ","t","h","e"," ","S","y","n","a","p","s","e"," ","w","o","r","k","s","p","a","c","e">>,
           <<" "," "," ","m","a","n","a","g","e","d"," ","i","d","e","n","t","i","t","y"," ","o","n"," ","s","t","o","r","a","g","e"," ","a","c","c","o","u","n","t"," ","'">> \o P(parameters, <<"s","t","o","r","a","g","e","A","c","c","o","u","n","t","N","a","m","e">>)
               \o <<"'",".">> >>
    ELSE
        LET key == FirstKey(<< <<"n","a","m","e">>, <<"a","c","c","o","u","n","t","N","a","m","e">>, <<"s","e","r","v","e","r","N","a","m","e">>, <<"s","e","r","v","i","c","e","N","a","m","e">> >>,
                            parameters)
            resource_name == IF key = <<>> THEN None ELSE Get(parameters, key[1])
        IN  (IF Falsy(resource_name) THEN <<>>
             ELSE << <<" "," "," ","R","e","s","o","u","r","c","e"," ","N","a","m","e",":"," ">> \o resource_name >>)
            \o << <<" "," "," ","R","e","s","o","u","r","c","e"," ","T","y","p","e",":"," ">> \o resource_type,
                  <<" "," "," ","L","o","c","a","t","i","o","n",":"," ">> \o location >>

\* whether format_deployment_details raises AttributeError
DetailsRaise(resource_type, parameters) ==
    \/ resource_type = <<"s","t","o","r","a","g","e","-","a","c","c","o","u","n","t">>
       /\ LowerRaises(parameters, <<"e","n","a","b","l","e","H","i","e","r","a","r","c","h","i","c","a","l","N","a","m","e","s","p","a","c","e">>)
    \/ resource_type \in { <<"a","z","u","r","e","-","s","y","n","a","p","s","e","-","a","n","a","l","y","t","i","c","s">>, <<"s","y","n","a","p","s","e">> }
       /\ (LowerRaises(parameters, <<"c","r","e","a","t","e","S","t","o","r","a","g","e","A","c","c","o","u","n","t">>)
           \/ LowerRaises(parameters, <<"c","r","e","a","t","e","C","o","n","t","a","i","n","e","r">>))

format_deployment_details(resource_type, resource_group, parameters) ==
    << S_Rule, <<" ","D","E","P","L","O","Y","M","E","N","T"," ","S","U","C","C","E","S","S","F","U","L">>, S_Rule, <<>>, <<" ","D","e","p","l","o","y","m","e","n","t"," ","D","e","t","a","i","l","s",":">>, <<>> >>
    \o DetailLines(resource_type, parameters)
    \o << <<>>, S_Rule, <<>> >>

\* ------------------------------------------------------------------------
\* Subnet address calculation (agent/utils.py)
\* ------------------------------------------------------------------------
\* s.split(c) for a one-character separator
RECURSIVE Split(_, _)
Split(s, c) ==
    LET first == TakeUntil(s, { c })
    IN  IF Len(first) = Len(s) THEN << s >>
        ELSE << first >> \o Split(Drop(s, Len(first) + 1), c)

\* whether int(s) succeeds (digits only; no sign or blanks occur in the model)
IsInt(s) == s # <<>> /\ \A i \in DOMAIN s : s[i] \in Digits

RECURSIVE Pow2(_)
Pow2(n) == IF n <= 0 THEN 1 ELSE 2 * Pow2(n - 1)

\* (o0 << 24) + (o1 << 16) + (o2 << 8) + o3 for the dotted quad ip; -1
\* stands for the ValueError / IndexError of a malformed address
IpToInt(ip) ==
    LET o == Split(ip, ".")
    IN  IF Len(o) >= 4 /\ \A i \in DOMAIN o : IsInt(o[i])
        THEN ToInt(o[1]) * Pow2(24) + ToInt(o[2]) * Pow2(16) + ToInt(o[3]) * Pow2(8) + ToInt(o[4])
        ELSE -1

\* str(n) for a natural number
RECURSIVE IntToStr(_)
IntToStr(n) == IF n < 10 THEN << ToString(n) >> ELSE IntToStr(n \div 10) \o << ToString(n % 10) >>

\* f"{(c >> 24) & 255}.{(c >> 16) & 255}.{(c >> 8) & 255}.{c & 255}"
IntToIp(c) ==
    IntToStr((c \div Pow2(24)) % 256) \o <<".">> \o IntToStr((c \div Pow2(16)) % 256) \o <<".">>
    \o IntToStr((c \div Pow2(8)) % 256) \o <<".">> \o IntToStr(c % 256)

\* a CIDR text "a.b.c.d/p" as [ok, start, size]
Cidr(prefix) ==
    LET parts == Split(prefix, "/")
        start == IpToInt(parts[1])
    IN  IF Len(parts) >= 2 /\ IsInt(parts[2]) /\ start >= 0
        THEN [ ok |-> TRUE, start |-> start, size |-> Pow2(32 - ToInt(parts[2])) ]
        ELSE [ ok |-> FALSE, start |-> 0, size |-> 0 ]

\* used_ranges.sort(key=lambda x: x[0]): a stable insertion sort by start
RECURSIVE InsertByStart(_, _)
InsertByStart(sorted, r) ==
    IF sorted = <<>> THEN << r >>
    ELSE IF sorted[Len(sorted)][1] <= r[1] THEN Append(sorted, r)
    ELSE Append(InsertByStart(SubSeq(sorted, 1, Len(sorted) - 1), r), sorted[Len(sorted)])

\* the ranges in the order of the listing
ListingOrder(ranges) == ranges

RECURSIVE SortByStart(_)
SortByStart(ranges) ==
    IF ranges = <<>> THEN <<>>
    ELSE InsertByStart(SortByStart(SubSeq(ranges, 1, Len(ranges) - 1)), ranges[Len(ranges)])

\* the loop `for start, end in used_ranges` over the sorted ranges
RECURSIVE Walk(_, _, _)
Walk(used_ranges, candidate, new_subnet_size) ==
    IF used_ranges = <<>> THEN candidate
    ELSE LET start == Head(used_ranges)[1]
             end   == Head(used_ranges)[2]
         IN  IF candidate + new_subnet_size <= start THEN candidate
             ELSE Walk(Tail(used_ranges), IF candidate < end THEN end ELSE candidate,
                       new_subnet_size)

\* an address handed out without looking at the network
DefaultAddress(vnet, subnet_size) == <<"1","0",".","0",".","0",".","0">>

\* calculate_next_subnet_address with
\*   vnet.show     the stdout of `az network vnet show`, <<>> when the command
\*                 failed, timed out or printed nothing
\*   vnet.subnets  the addressPrefix of every subnet get_vnet_subnets returns
\* The result is the address text, or None.
calculate_next_subnet_address(vnet, subnet_size) ==
    With(Cidr(Strip(vnet.show)), LAMBDA vnet_cidr :
    With(Filter(vnet.subnets,
                { i \in DOMAIN vnet.subnets : ContainsStr(vnet.subnets[i], <<"/">>) }),
         LAMBDA withSlash :
    With([ i \in DOMAIN withSlash |-> Cidr(withSlash[i]) ], LAMBDA parsed :
    With(Pow2(32 - subnet_size), LAMBDA new_subnet_size :
    With([ i \in DOMAIN parsed |-> << parsed[i].start, parsed[i].start + parsed[i].size >> ],
         LAMBDA used_ranges :
    With(Walk(SortByStart(used_ranges), vnet_cidr.start, new_subnet_size), LAMBDA candidate :
        IF Strip(vnet.show) = <<>> \/ ~vnet_cidr.ok THEN None
        ELSE IF \E i \in DOMAIN parsed : ~parsed[i].ok THEN None
        ELSE IF candidate + new_subnet_size > vnet_cidr.start + vnet_cidr.size THEN None
        ELSE IntToIp(candidate)))))))

\* ------------------------------------------------------------------------
\* External calls.  Every subprocess or network request a tool starts is
\* recorded as an event [op, arg] in the order the code starts them:
\*   "check"          check-resource.ps1            arg = resource type
\*   "token"          az account get-access-token   arg = <<>>
\*   "http"           GET api.powerbi.com           arg = <<>>
\*   "vnet_show"      az network vnet show          arg = <<>>
\*   "subnet_list"    az network vnet subnet list   arg = <<>>
\*   "deploy"         deploy-bicep.ps1              arg = the parameters forwarded
\*   "post_deploy"    post-deploy-function-app.ps1  arg = <<>>
\*   "resource_show"  az resource show              arg = resource name
\*   "attach"         attach-nsp.ps1 / attach-log-analytics.ps1
\*                                                  arg = -NspName / -WorkspaceId
\* ------------------------------------------------------------------------
Event(op, arg) == [ op |-> op, arg |-> arg ]

CountOp(events, op) == Cardinality({ i \in DOMAIN events : events[i].op = op })

\* ------------------------------------------------------------------------
\* Fabric tenant region (agent/utils.py, get_fabric_tenant_region)
\* ------------------------------------------------------------------------
\* e.os_token  what the operating system does with the token command
\* e.http      [ok, regions]: ok is FALSE when urlopen or the JSON decoding
\*             raises; regions are the "region" values of data["value"]
\*             (None for a capacity without region)
TokenCommand ==
    << <<"a","z">>, <<"a","c","c","o","u","n","t">>, <<"g","e","t","-","a","c","c","e","s","s","-","t","o","k","e","n">>, <<"-","-","r","e","s","o","u","r","c","e">>,
       <<"h","t","t","p","s",":","/","/","a","n","a","l","y","s","i","s",".","w","i","n","d","o","w","s",".","n","e","t","/","p","o","w","e","r","b","i","/","a","p","i">>, <<"-","-","q","u","e","r","y">>, <<"a","c","c","e","s","s","T","o","k","e","n">>, <<"-","o">>, <<"t","s","v">> >>

TokenOk(e) ==
    With(Strip(Flat(RunCommand(TokenCommand, e.os_token).text)),
         LAMBDA token : token # <<>> /\ ~ContainsStr(token, <<"E","R","R","O","R">>))

\* a lookup that finds no region
NoRegion(token_ok, e) == None

get_fabric_tenant_region(token_ok, e) ==
    IF ~token_ok THEN None
    ELSE IF ~e.http.ok THEN None
    ELSE IF Len(e.http.regions) > 0 THEN e.http.regions[1]
    ELSE None

FabricRegionCalls(token_ok) ==
    IF token_ok THEN << Event("token", <<>>), Event("http", <<>>) >>
    ELSE << Event("token", <<>>) >>

\* s.replace(" ", "")
RECURSIVE RemoveSpaces(_)
RemoveSpaces(s) ==
    IF s = <<>> THEN <<>>
    ELSE IF Head(s) = " " THEN RemoveSpaces(Tail(s))
    ELSE << Head(s) >> \o RemoveSpaces(Tail(s))

\* str.upper() on one character
UpperChar(c) ==
    IF \E i \in DOMAIN LowerAlpha : LowerAlpha[i] = c
    THEN UpperAlpha[CHOOSE i \in DOMAIN LowerAlpha : LowerAlpha[i] = c]
    ELSE c

\* str.capitalize()
Capitalize(s) == IF s = <<>> THEN <<>> ELSE << UpperChar(Head(s)) >> \o Lower(Tail(s))

\* the tier as the caller wrote it
KeepTier(tier) == tier

\* parameters["accessTier"].lower().capitalize()
NormalizeAccessTier(tier) == Capitalize(Lower(tier))

\* ------------------------------------------------------------------------
\* get_resource_id (agent/utils.py): only its command matters, the value it
\* returns is never used by deploy_bicep
\* ------------------------------------------------------------------------
NAME_KEYS ==
    << <<"n","a","m","e">>, <<"a","c","c","o","u","n","t","N","a","m","e">>, <<"k","e","y","V","a","u","l","t","N","a","m","e">>, <<"s","e","r","v","e","r","N","a","m","e">>, <<"d","a","t","a","b","a","s","e","N","a","m","e">>,
       <<"s","t","o","r","a","g","e","A","c","c","o","u","n","t","N","a","m","e">>, <<"w","o","r","k","s","p","a","c","e","N","a","m","e">>, <<"s","e","a","r","c","h","S","e","r","v","i","c","e","N","a","m","e">>, <<"s","e","r","v","i","c","e","N","a","m","e">>,
       <<"v","m","N","a","m","e">>, <<"v","i","r","t","u","a","l","M","a","c","h","i","n","e","N","a","m","e">>, <<"s","i","t","e","N","a","m","e">>, <<"f","u","n","c","t","i","o","n","A","p","p","N","a","m","e">>,
       <<"a","p","p","S","e","r","v","i","c","e","N","a","m","e">>, <<"l","o","g","i","c","A","p","p","N","a","m","e">>, <<"w","o","r","k","f","l","o","w","N","a","m","e">>, <<"f","a","c","t","o","r","y","N","a","m","e">>, <<"c","a","c","h","e","N","a","m","e">>,
       <<"f","r","o","n","t","D","o","o","r","N","a","m","e">>, <<"c","l","u","s","t","e","r","N","a","m","e">> >>

ResourceIdCalls(resource_type, parameters) ==
    LET key == FirstKey(NAME_KEYS, parameters)
        resource_name == IF key = <<>> THEN None ELSE Get(parameters, key[1])
    IN  IF Falsy(resource_name) \/ ~HasKey(RESOURCE_TYPE_PROVIDER_MAP, resource_type)
        THEN <<>>
        ELSE << Event("resource_show", resource_name) >>

\* ------------------------------------------------------------------------
\* Deployment Dispatcher (agent/utils.py, deploy_bicep)
\* ------------------------------------------------------------------------
\* The environment e of one deployment:
\*   e.has_pwsh           shutil.which("pwsh") finds PowerShell 7
\*   e.template           the template file of the type, [exists, lines]
\*   e.has_deploy_script  deploy-bicep.ps1 exists
\*   e.has_post_script    post-deploy-function-app.ps1 exists
\*   e.os_token, e.http   see get_fabric_tenant_region
\*   e.vnet               see calculate_next_subnet_address
\*   e.os_deploy          what the operating system does with the deployment
\*   e.principal          what json.loads finds in the deployment output:
\*                        "none" (no JSON or no principal id), "raise"
\*                        (json.loads or .get raises), "id"
\*   e.os_post            what the operating system does with the post script
\* A result is [raised, text, calls, deployed]: raised when the call ends by
\* an exception, else the text returned; calls are the external calls
\* started; deployed tells that deploy_bicep took its success branch.
\* a result of a call that has looked up the tenant region before anything else
ResultAfterLookup(raised, text, calls) ==
    [ raised |-> raised, text |-> text, calls |-> << Event("token", <<>>) >> \o calls,
      deployed |-> FALSE ]

Result(raised, text, calls) ==
    [ raised |-> raised, text |-> text, calls |-> calls, deployed |-> FALSE ]
Success(text, calls) ==
    [ raised |-> FALSE, text |-> text, calls |-> calls, deployed |-> TRUE ]

NspPrompt ==
    << <<>>, S_Rule, <<>>, <<" "," ","C","O","M","P","L","I","A","N","C","E"," ","R","E","Q","U","I","R","E","M","E","N","T">>, S_Rule, <<>>,
       <<"T","h","i","s"," ","r","e","s","o","u","r","c","e"," ","r","e","q","u","i","r","e","s"," ","N","S","P"," ","a","t","t","a","c","h","m","e","n","t"," ","f","o","r",":">>,
       <<" "," "," "," ","S","e","c","u","r","e"," ","P","a","a","S"," ","R","e","s","o","u","r","c","e","s"," ","-"," ","N","e","t","w","o","r","k"," ","I","s","o","l","a","t","i","o","n">>,
       <<>>, S_Rule, <<>>,
       <<" ","D","o"," ","y","o","u"," ","w","a","n","t"," ","t","o"," ","a","t","t","a","c","h"," ","t","h","i","s"," ","r","e","s","o","u","r","c","e"," ","t","o"," ","N","S","P","?">>,
       <<>>,
       <<" "," "," ","T","y","p","e"," ","'","y","e","s","'"," ","o","r"," ","'","a","t","t","a","c","h"," ","t","o"," ","N","S","P","'"," ","t","o"," ","p","r","o","c","e","e","d">>,
       <<" "," "," ","T","y","p","e"," ","'","n","o","'"," ","t","o"," ","s","k","i","p"," ","(","n","o","t"," ","r","e","c","o","m","m","e","n","d","e","d"," ","-"," ","r","e","s","o","u","r","c","e"," ","w","i","l","l"," ","n","o","t"," ","b","e"," ","c","o","m","p","l","i","a","n","t",")">>,
       <<>>,
       <<"A","u","t","o","m","a","t","e","d"," ","w","o","r","k","f","l","o","w"," ","w","i","l","l",":">>,
       <<" "," "," ","1","."," "," ","C","h","e","c","k"," ","i","f"," ","N","S","P"," ","e","x","i","s","t","s"," ","i","n"," ","t","h","e"," ","r","e","s","o","u","r","c","e"," ","g","r","o","u","p">>,
       <<" "," "," ","2","."," "," ","C","r","e","a","t","e"," ","N","S","P"," ","i","f"," ","i","t"," ","d","o","e","s","n","'","t"," ","e","x","i","s","t"," ","(","s","k","i","p"," ","i","f"," ","e","x","i","s","t","s",")">>,
       <<" "," "," ","3","."," "," ","A","t","t","a","c","h"," ","t","h","e"," ","r","e","s","o","u","r","c","e"," ","t","o"," ","t","h","e"," ","N","S","P">>,
       <<>> >>

LogAnalyticsPrompt ==
    << <<>>, S_Rule, <<" "," ","C","O","M","P","L","I","A","N","C","E"," ","R","E","Q","U","I","R","E","M","E","N","T">>, S_Rule, <<>>,
       <<"T","h","i","s"," ","r","e","s","o","u","r","c","e"," ","r","e","q","u","i","r","e","s"," ","L","o","g"," ","A","n","a","l","y","t","i","c","s"," ","d","i","a","g","n","o","s","t","i","c"," ","s","e","t","t","i","n","g","s"," ","f","o","r",":">>,
       <<" "," "," ","R","e","s","o","u","r","c","e"," ","M","o","n","i","t","o","r","i","n","g"," ","&"," ","C","o","m","p","l","i","a","n","c","e">>,
       <<>>, S_Rule, <<>>,
       <<"D","o"," ","y","o","u"," ","w","a","n","t"," ","t","o"," ","c","o","n","f","i","g","u","r","e"," ","L","o","g"," ","A","n","a","l","y","t","i","c","s"," ","f","o","r"," ","t","h","i","s"," ","r","e","s","o","u","r","c","e","?">>,
       <<>>,
       <<" "," "," ","T","y","p","e"," ","'","y","e","s","'"," ","o","r"," ","'","c","o","n","f","i","g","u","r","e"," ","L","o","g"," ","A","n","a","l","y","t","i","c","s","'"," ","t","o"," ","p","r","o","c","e","e","d">>,
       <<" "," "," ","T","y","p","e"," ","'","n","o","'"," ","t","o"," ","s","k","i","p"," ","(","n","o","t"," ","r","e","c","o","m","m","e","n","d","e","d"," ","-"," ","r","e","s","o","u","r","c","e"," ","w","i","l","l"," ","n","o","t"," ","h","a","v","e"," ","m","o","n","i","t","o","r","i","n","g",")">>,
       <<>>,
       <<"A","u","t","o","m","a","t","e","d"," ","w","o","r","k","f","l","o","w"," ","w","i","l","l",":">>,
       <<" "," "," ","1","."," "," ","C","h","e","c","k"," ","i","f"," ","L","o","g"," ","A","n","a","l","y","t","i","c","s"," ","W","o","r","k","s","p","a","c","e"," ","e","x","i","s","t","s"," ","i","n"," ","t","h","e"," ","r","e","s","o","u","r","c","e"," ","g","r","o","u","p">>,
       <<" "," "," ","2","."," "," ","C","r","e","a","t","e"," ","w","o","r","k","s","p","a","c","e"," ","i","f"," ","i","t"," ","d","o","e","s","n","'","t"," ","e","x","i","s","t"," ","(","s","k","i","p"," ","i","f"," ","e","x","i","s","t","s",")">>,
       <<" "," "," ","3","."," "," ","C","o","n","f","i","g","u","r","e"," ","d","i","a","g","n","o","s","t","i","c"," ","s","e","t","t","i","n","g","s"," ","f","o","r"," ","t","h","e"," ","r","e","s","o","u","r","c","e">>,
       <<>> >>

RbacTable(parameters) ==
    << <<>>, S_Rule, <<" ","R","E","Q","U","I","R","E","D"," ","R","B","A","C"," ","R","O","L","E"," ","A","S","S","I","G","N","M","E","N","T","S">>, S_Rule, <<>>,
       <<"T","h","e"," ","L","o","g","i","c"," ","A","p","p"," ","S","y","s","t","e","m"," ","A","s","s","i","g","n","e","d"," ","M","a","n","a","g","e","d"," ","I","d","e","n","t","i","t","y"," ","n","e","e","d","s"," ","t","h","e","s","e"," ","r","o","l","e","s">>,
       <<"o","n"," ","S","t","o","r","a","g","e"," ","A","c","c","o","u","n","t"," ","'">> \o Str(DictGet(parameters, <<"s","t","o","r","a","g","e","A","c","c","o","u","n","t","N","a","m","e">>, <<>>)) \o <<"'",":">>,
       <<>>, S_Rule,
       <<" ","R","o","l","e"," ","N","a","m","e"," "," "," "," "," "," "," "," "," "," "," "," "," "," "," "," "," "," "," "," "," "," "," "," "," "," "," "," ","R","o","l","e"," ","D","e","f","i","n","i","t","i","o","n"," ","I","D"," "," "," "," "," "," "," "," "," "," "," "," "," "," "," "," "," "," "," ">>,
       S_Rule,
       <<" ","S","t","o","r","a","g","e"," ","B","l","o","b"," ","D","a","t","a"," ","O","w","n","e","r"," "," "," "," "," "," "," "," "," "," "," "," "," "," ","b","7","e","6","d","c","6","d","-","f","1","e","8","-","4","7","5","3","-","8","0","3","3","-","0","f","2","7","6","b","b","0","9","5","5","b"," ">>,
       <<" ","S","t","o","r","a","g","e"," ","A","c","c","o","u","n","t"," ","C","o","n","t","r","i","b","u","t","o","r"," "," "," "," "," "," "," "," "," "," ","1","7","d","1","0","4","9","b","-","9","a","8","4","-","4","6","f","b","-","8","f","5","3","-","8","6","9","8","8","1","c","3","d","3","a","b"," ">>,
       <<" ","S","t","o","r","a","g","e"," ","Q","u","e","u","e"," ","D","a","t","a"," ","C","o","n","t","r","i","b","u","t","o","r"," "," "," "," "," "," "," ","9","7","4","c","5","e","8","b","-","4","5","b","9","-","4","6","5","3","-","b","a","5","5","-","5","f","8","5","5","d","d","0","f","b","8","8"," ">>,
       <<" ","S","t","o","r","a","g","e"," ","T","a","b","l","e"," ","D","a","t","a"," ","C","o","n","t","r","i","b","u","t","o","r"," "," "," "," "," "," "," ","0","a","9","a","7","e","1","f","-","b","9","d","0","-","4","c","c","4","-","a","6","0","d","-","0","3","1","9","b","1","6","0","a","a","a","3"," ">>,
       <<" ","S","t","o","r","a","g","e"," ","F","i","l","e"," ","D","a","t","a"," ","S","M","B"," ","S","h","a","r","e"," ","C","o","n","t","r","i","b"," "," ","0","c","8","6","7","c","2","a","-","1","d","8","c","-","4","5","4","a","-","a","3","d","b","-","a","b","2","e","a","1","b","d","c","8","b","b"," ">>,
       S_Rule, <<>>,
       <<"A","s","k"," ","y","o","u","r"," ","a","d","m","i","n"," ","t","o"," ","p","r","o","v","i","d","e"," ","t","h","e","s","e"," ","r","o","l","e","s"," ","t","o"," ","t","h","e"," ","L","o","g","i","c"," ","A","p","p","'","s"," ","m","a","n","a","g","e","d"," ","i","d","e","n","t","i","t","y"," ","f","o","r"," ","p","r","o","p","e","r"," ","f","u","n","c","t","i","o","n","i","n","g",".">>,
       S_Rule >>

\* the parameters after the type-specific derivations of deploy_bicep;
\* derive.raised when a derivation raises, derive.error when the subnet
\* address cannot be calculated
SubnetNeedsAddress(parameters) ==
    ~Falsy(DictGet(parameters, <<"v","n","e","t","N","a","m","e">>, <<>>)) /\ ~HasKey(parameters, <<"s","u","b","n","e","t","S","t","a","r","t","i","n","g","A","d","d","r","e","s","s">>)

SubnetSizeText(parameters) == DictGet(parameters, <<"s","u","b","n","e","t","S","i","z","e">>, <<"2","7">>)

Derive(resource_type, parameters, e) ==
    IF resource_type = <<"s","t","o","r","a","g","e","-","a","c","c","o","u","n","t">> /\ HasKey(parameters, <<"a","c","c","e","s","s","T","i","e","r">>) THEN
        IF Get(parameters, <<"a","c","c","e","s","s","T","i","e","r">>) = None
        THEN [ raised |-> TRUE, error |-> FALSE, parameters |-> parameters, calls |-> <<>> ]
        ELSE [ raised |-> FALSE, error |-> FALSE, calls |-> <<>>,
               parameters |-> DictSet(parameters, <<"a","c","c","e","s","s","T","i","e","r">>,
                                      NormalizeAccessTier(Get(parameters, <<"a","c","c","e","s","s","T","i","e","r">>))) ]
    ELSE IF resource_type = <<"f","a","b","r","i","c","-","c","a","p","a","c","i","t","y">> THEN
        With(TokenOk(e), LAMBDA token_ok :
        With(get_fabric_tenant_region(token_ok, e), LAMBDA tenant_region :
            [ raised |-> FALSE, error |-> FALSE, calls |-> FabricRegionCalls(token_ok),
              parameters |-> DictSet(parameters, <<"l","o","c","a","t","i","o","n">>,
                                     IF Falsy(tenant_region) THEN <<"w","e","s","t","c","e","n","t","r","a","l","u","s">>
                                     ELSE RemoveSpaces(Lower(tenant_region))) ]))
    ELSE IF resource_type = <<"s","u","b","n","e","t">> /\ SubnetNeedsAddress(parameters) THEN
        IF ~IsInt(Str(SubnetSizeText(parameters)))
        THEN [ raised |-> TRUE, error |-> FALSE, parameters |-> parameters, calls |-> <<>> ]
        ELSE With(calculate_next_subnet_address(e.vnet, ToInt(SubnetSizeText(parameters))),
                  LAMBDA next_address :
             With(IF Strip(e.vnet.show) = <<>> THEN << Event("vnet_show", <<>>) >>
                  ELSE << Event("vnet_show", <<>>), Event("subnet_list", <<>>) >>,
                  LAMBDA calls :
                 IF next_address = None
                 THEN [ raised |-> FALSE, error |-> TRUE, parameters |-> parameters,
                        calls |-> calls ]
                 ELSE [ raised |-> FALSE, error |-> FALSE, calls |-> calls,
                        parameters |-> DictSet(parameters, <<"s","u","b","n","e","t","S","t","a","r","t","i","n","g","A","d","d","r","e","s","s">>,
                                               next_address) ]))
    ELSE [ raised |-> FALSE, error |-> FALSE, parameters |-> parameters, calls |-> <<>> ]

\* ";".join([f"{k}={v}" for k, v in parameters.items()])
ParamString(parameters) ==
    Join([ i \in DOMAIN parameters |-> parameters[i][1] \o <<"=">> \o Str(parameters[i][2]) ], <<";">>)

\* the command run_powershell_script builds for the deployment script
DeployCommand(resource_group, template_path, param_string, has_pwsh) ==
    << ps_executable(has_pwsh), <<"-","E","x","e","c","u","t","i","o","n","P","o","l","i","c","y">>, <<"B","y","p","a","s","s">>, <<"-","F","i","l","e">>,
       get_script_path(<<"d","e","p","l","o","y","-","b","i","c","e","p",".","p","s","1">>) >>
    \o (IF Falsy(resource_group) THEN <<>> ELSE << <<"-","R","e","s","o","u","r","c","e","G","r","o","u","p">>, resource_group >>)
    \o << <<"-","T","e","m","p","l","a","t","e","P","a","t","h">>, template_path >>
    \o (IF param_string = <<>> THEN <<>> ELSE << <<"-","P","a","r","a","m","e","t","e","r","s">>, param_string >>)

\* a judgement that looks for "Succeeded" alone
SucceededNamed(deploy_result) == Contains(deploy_result, <<"S","u","c","c","e","e","d","e","d">>)

\* "Succeeded" in deploy_result and "Failed" not in deploy_result
DeploymentSuccessful(deploy_result) ==
    Contains(deploy_result, <<"S","u","c","c","e","e","d","e","d">>) /\ ~Contains(deploy_result, <<"F","a","i","l","e","d">>)

\* the text built after a successful deployment
SuccessText(resource_group, resource_type, parameters, e) ==
    (IF resource_type = <<"f","u","n","c","t","i","o","n","-","a","p","p">> THEN
         << <<"R","u","n","n","i","n","g"," ","p","o","s","t","-","d","e","p","l","o","y","m","e","n","t"," ","t","a","s","k","s"," ","f","o","r"," ","F","u","n","c","t","i","o","n"," ","A","p","p",".",".",".">> >>
         \o (IF ~e.has_post_script \/ e.principal = "none" THEN <<>>
             ELSE IF e.principal = "raise"
             THEN << <<"W","a","r","n","i","n","g",":"," ","C","o","u","l","d"," ","n","o","t"," ","r","u","n"," ","p","o","s","t","-","d","e","p","l","o","y","m","e","n","t"," ","t","a","s","k","s",":"," ","E","x","p","e","c","t","i","n","g"," ","v","a","l","u","e">> >>
             ELSE RunCommand(<< ps_executable(e.has_pwsh), <<"-","E","x","e","c","u","t","i","o","n","P","o","l","i","c","y">>, <<"B","y","p","a","s","s">>,
                                <<"-","F","i","l","e">>, get_script_path(<<"p","o","s","t","-","d","e","p","l","o","y","-","f","u","n","c","t","i","o","n","-","a","p","p",".","p","s","1">>) >>,
                             e.os_post).text)
     ELSE <<>>)
    \o format_deployment_details(resource_type, resource_group, parameters)
    \o (IF resource_type = <<"l","o","g","i","c","-","a","p","p">>
           /\ DictGet(parameters, <<"l","o","g","i","c","A","p","p","T","y","p","e">>, None) = <<"s","t","a","n","d","a","r","d">>
        THEN RbacTable(parameters) ELSE <<>>)
    \o (IF InList(NSP_MANDATORY_RESOURCES, resource_type) THEN NspPrompt ELSE <<>>)
    \o (IF InList(LOG_ANALYTICS_MANDATORY_RESOURCES, resource_type)
        THEN LogAnalyticsPrompt ELSE <<>>)

\* a success branch that goes on to attach a type of the NSP-mandatory list
ChainedCalls(resource_type, parameters, e) ==
    ResourceIdCalls(resource_type, parameters)
    \o (IF InList(NSP_MANDATORY_RESOURCES, resource_type)
        THEN << Event("attach", resource_type) >> ELSE <<>>)

SuccessCalls(resource_type, parameters, e) ==
    (IF resource_type = <<"f","u","n","c","t","i","o","n","-","a","p","p">> /\ e.has_post_script /\ e.principal = "id"
     THEN << Event("post_deploy", <<>>) >> ELSE <<>>)
    \o ResourceIdCalls(resource_type, parameters)

deploy_bicep(resource_group, resource_type, parameters, e) ==
    IF ~HasKey(TEMPLATE_MAP, resource_type)
    THEN Result(FALSE, << <<"U","n","k","n","o","w","n"," ","r","e","s","o","u","r","c","e","_","t","y","p","e"," ","'">> \o resource_type \o <<"'",".">> >>, <<>>)
    ELSE
    With(get_template_path(Get(TEMPLATE_MAP, resource_type)), LAMBDA template_path :
    IF ~e.template.exists
    THEN Result(FALSE, << <<"T","e","m","p","l","a","t","e"," ","n","o","t"," ","f","o","u","n","d",":"," ">> \o template_path >>, <<>>)
    ELSE
    With(Derive(resource_type, parameters, e), LAMBDA d :
    IF d.raised THEN Result(TRUE, <<>>, d.calls)
    ELSE IF d.error
    THEN Result(FALSE,
                << <<"E","r","r","o","r",":"," ","C","o","u","l","d"," ","n","o","t"," ","c","a","l","c","u","l","a","t","e"," ","n","e","x","t"," ","a","v","a","i","l","a","b","l","e"," ","s","u","b","n","e","t"," ","a","d","d","r","e","s","s"," ","i","n"," ","V","N","e","t"," ","'">>
                   \o Str(DictGet(parameters, <<"v","n","e","t","N","a","m","e">>, <<>>))
                   \o <<"'","."," ","T","h","e"," ","V","N","e","t"," ","m","a","y"," ","b","e"," ","f","u","l","l"," ","o","r"," ","n","o","t"," ","a","c","c","e","s","s","i","b","l","e",".">> >>,
                d.calls)
    ELSE IF ~e.has_deploy_script
    THEN Result(FALSE,
                << <<"E","r","r","o","r",":"," ","S","c","r","i","p","t"," ","'","d","e","p","l","o","y","-","b","i","c","e","p",".","p","s","1","'"," ","n","o","t"," ","f","o","u","n","d"," ","a","t"," ">>
                   \o get_script_path(<<"d","e","p","l","o","y","-","b","i","c","e","p",".","p","s","1">>) >>,
                d.calls)
    ELSE
    With(DeployCommand(resource_group, template_path, ParamString(d.parameters), e.has_pwsh),
         LAMBDA command :
    With(RunCommand(command, e.os_deploy).text, LAMBDA deploy_result :
    With(d.calls \o << Event("deploy", d.parameters) >>, LAMBDA calls :
        IF ~DeploymentSuccessful(deploy_result) THEN Result(FALSE, deploy_result, calls)
        ELSE IF DetailsRaise(resource_type, d.parameters)
        THEN Result(TRUE, <<>>,
                    calls \o (IF resource_type = <<"f","u","n","c","t","i","o","n","-","a","p","p">> /\ e.has_post_script
                                 /\ e.principal = "id"
                              THEN << Event("post_deploy", <<>>) >> ELSE <<>>))
        ELSE Success(SuccessText(resource_group, resource_type, d.parameters, e),
                     calls \o SuccessCalls(resource_type, d.parameters, e)))))))

\* ------------------------------------------------------------------------
\* deploy_bicep_resource and create_resource (agent/azure.py)
\* ------------------------------------------------------------------------
RequiredNames(params) ==
    Names(Filter(params, { i \in DOMAIN params : params[i].required }))

deploy_bicep_resource(resource_group, resource_type, parameters, e) ==
    IF Falsy(resource_group) \/ Strip(resource_group) = <<>>
    THEN Result(FALSE,
                << <<"S","T","O","P",":"," ","R","e","s","o","u","r","c","e"," ","g","r","o","u","p"," ","n","a","m","e"," ","i","s"," ","r","e","q","u","i","r","e","d","."," ","P","l","e","a","s","e"," ","p","r","o","v","i","d","e"," ","t","h","e"," ","r","e","s","o","u","r","c","e"," ","g","r","o","u","p"," ","n","a","m","e",".">> >>,
                <<>>)
    ELSE IF Falsy(resource_type) \/ Strip(resource_type) = <<>>
    THEN Result(FALSE,
                << <<"S","T","O","P",":"," ","R","e","s","o","u","r","c","e"," ","t","y","p","e"," ","i","s"," ","r","e","q","u","i","r","e","d","."," ","V","a","l","i","d"," ","t","y","p","e","s",":"," ">>
                   \o Join(Keys(TEMPLATE_MAP), <<","," ">>) >>,
                <<>>)
    ELSE
    With(validate_bicep_parameters(resource_type, parameters, e.template), LAMBDA v :
    With(RequiredNames(v.params), LAMBDA req_params :
        IF ~v.ok
        THEN Result(FALSE,
                    << <<"S","T","O","P",":"," ">> \o v.msg, <<>>,
                       <<"P","l","e","a","s","e"," ","c","a","l","l"," ","g","e","t","_","b","i","c","e","p","_","r","e","q","u","i","r","e","m","e","n","t","s","(","'">> \o resource_type
                           \o <<"'",")"," ","t","o"," ","s","e","e"," ","a","l","l"," ","r","e","q","u","i","r","e","d"," ","p","a","r","a","m","e","t","e","r","s",".">>,
                       <<"R","e","q","u","i","r","e","d",":"," ">> \o (IF req_params # <<>> THEN Join(req_params, <<","," ">>)
                                         ELSE <<"u","n","k","n","o","w","n">>) >>,
                    <<>>)
        ELSE deploy_bicep(resource_group, resource_type, parameters, e)))

\* The `parameters` argument of create_resource: [kind, dict] with kind
\*   "none"     no argument (None or "")
\*   "invalid"  a string json.loads rejects
\*   "dict"     the JSON text of the dict `dict`
NoParams == [ kind |-> "none", dict |-> <<>> ]
InvalidJson == [ kind |-> "invalid", dict |-> <<>> ]
JsonOf(d) == [ kind |-> "dict", dict |-> d ]

\* a create_resource that takes no parameter for calculated
NoAutoCalculated(resource_type) == <<>>

AutoCalculatedCreate(resource_type) ==
    IF resource_type = <<"f","a","b","r","i","c","-","c","a","p","a","c","i","t","y">> THEN << <<"l","o","c","a","t","i","o","n">> >> ELSE <<>>

\* the lists required_params / optional_params / missing_required
CreateRequired(template_params, auto_calculated) ==
    Names(Filter(template_params,
                 { i \in DOMAIN template_params :
                     template_params[i].required
                     /\ ~InList(auto_calculated, template_params[i].name) }))

CreateOptional(template_params, auto_calculated) ==
    Names(Filter(template_params,
                 { i \in DOMAIN template_params :
                     ~template_params[i].required
                     /\ ~InList(auto_calculated, template_params[i].name) }))

CreateMissing(template_params, auto_calculated, params_dict) ==
    With(CreateRequired(template_params, auto_calculated), LAMBDA required_params :
        Filter(required_params,
               { i \in DOMAIN required_params : Absent(params_dict, required_params[i]) }))

\* the text that asks for the missing parameters
MissingPrompt(resource_type, resource_group, missing_required, optional_params) ==
    << <<"C","r","e","a","t","i","n","g"," ">> \o resource_type \o <<" ","i","n"," ","'">> \o resource_group \o <<"'">>, <<>>,
       <<"P","l","e","a","s","e"," ","p","r","o","v","i","d","e"," ","t","h","e"," ","f","o","l","l","o","w","i","n","g"," ","r","e","q","u","i","r","e","d"," ","p","a","r","a","m","e","t","e","r","s",":">>, <<>> >>
    \o [ i \in DOMAIN missing_required |-> <<" "," ","-"," ">> \o missing_required[i] ]
    \o (IF resource_type = <<"f","a","b","r","i","c","-","c","a","p","a","c","i","t","y">>
        THEN << <<>>, <<"N","o","t","e",":"," ","'","l","o","c","a","t","i","o","n","'"," ","w","i","l","l"," ","b","e"," ","a","u","t","o","-","d","e","t","e","c","t","e","d"," ","f","r","o","m"," ","y","o","u","r"," ","F","a","b","r","i","c"," ","t","e","n","a","n","t"," ","r","e","g","i","o","n",".">> >>
        ELSE IF resource_type = <<"s","u","b","n","e","t">>
        THEN << <<>>,
                <<"I","M","P","O","R","T","A","N","T",":"," ","Y","o","u"," ","m","u","s","t"," ","p","r","o","v","i","d","e"," ","'","s","u","b","n","e","t","S","t","a","r","t","i","n","g","A","d","d","r","e","s","s","'"," ","(","I","P"," ","a","d","d","r","e","s","s",")"," ","a","n","d"," ","'","s","u","b","n","e","t","S","i","z","e","'"," ","(","C","I","D","R"," ","p","r","e","f","i","x",","," ","e",".","g",".",","," ","2","7"," ","f","o","r"," ","/","2","7",")",".">>,
                <<" "," "," "," "," "," "," "," "," "," "," ","N","o"," ","a","u","t","o","-","r","e","c","o","m","m","e","n","d","a","t","i","o","n"," ","-"," ","p","l","e","a","s","e"," ","s","p","e","c","i","f","y"," ","y","o","u","r"," ","I","P"," ","a","d","d","r","e","s","s"," ","p","o","o","l"," ","a","n","d"," ","s","i","z","e",".">> >>
        ELSE <<>>)
    \o (IF optional_params # <<>>
        THEN << <<>>, <<"O","p","t","i","o","n","a","l"," ","p","a","r","a","m","e","t","e","r","s",":"," ">> \o Join(optional_params, <<","," ">>) >>
        ELSE <<>>)
    \o << <<>>, <<"O","n","c","e"," ","y","o","u"," ","p","r","o","v","i","d","e"," ","t","h","e","s","e",","," ","I","'","l","l",":">>, <<>>,
          <<" "," "," ","1","."," ","D","e","p","l","o","y"," ","t","h","e"," ">> \o resource_type >>

create_resource(resource_type, resource_group, parameters, e) ==
    IF ~HasKey(TEMPLATE_MAP, resource_type)
    THEN Result(FALSE,
                << <<"I","n","v","a","l","i","d"," ","r","e","s","o","u","r","c","e"," ","t","y","p","e","."," ","S","u","p","p","o","r","t","e","d"," ","t","y","p","e","s",":">> >>
                \o [ i \in DOMAIN TEMPLATE_MAP |-> <<" "," ","-"," ">> \o TEMPLATE_MAP[i][1] ],
                <<>>)
    ELSE IF parameters.kind = "invalid"
    THEN Result(FALSE, << <<"E","r","r","o","r",":"," ","I","n","v","a","l","i","d"," ","J","S","O","N"," ","i","n"," ","p","a","r","a","m","e","t","e","r","s",":"," ","{">> >>, <<>>)
    ELSE IF Falsy(resource_group)
    THEN Result(FALSE,
                << <<"C","r","e","a","t","i","n","g"," ">> \o resource_type, <<>>,
                   <<"P","l","e","a","s","e"," ","p","r","o","v","i","d","e",":">>,
                   <<" "," ","-"," ","r","e","s","o","u","r","c","e","_","g","r","o","u","p"," ","(","r","e","q","u","i","r","e","d",")",":"," ","T","h","e"," ","A","z","u","r","e"," ","r","e","s","o","u","r","c","e"," ","g","r","o","u","p"," ","n","a","m","e">>, <<>>,
                   <<"O","n","c","e"," ","y","o","u"," ","p","r","o","v","i","d","e"," ","t","h","e"," ","r","e","s","o","u","r","c","e"," ","g","r","o","u","p",","," ","I","'","l","l"," ","c","h","e","c","k"," ","f","o","r"," ","t","h","e"," ","r","e","q","u","i","r","e","d"," ","t","e","m","p","l","a","t","e"," ","p","a","r","a","m","e","t","e","r","s",".">> >>,
                <<>>)
    ELSE
    With(parameters.dict, LAMBDA params_dict :
    With(parse_bicep_parameters(e.template), LAMBDA template_params :
    With(AutoCalculatedCreate(resource_type), LAMBDA auto_calculated :
    With(CreateMissing(template_params, auto_calculated, params_dict),
         LAMBDA missing_required :
        IF missing_required # <<>>
        THEN Result(FALSE,
                    MissingPrompt(resource_type, resource_group, missing_required,
                                  CreateOptional(template_params, auto_calculated)),
                    <<>>)
        ELSE deploy_bicep_resource(resource_group, resource_type, params_dict, e)))))

\* ------------------------------------------------------------------------
\* assign_rbac_role (agent/azure.py)
\* ------------------------------------------------------------------------
\* object_ids and role_names arrive as a list of strings or as one string
ListArg(l) == [ list |-> l ]
StrArg(s) == [ str |-> s ]

\* isinstance(x, str)
IsStr(x) == "str" \in DOMAIN x

\* not x
Empty(x) == IF IsStr(x) THEN x.str = <<>> ELSE x.list = <<>>

\* if isinstance(x, str): x = [x]
EnsureList(x) == IF IsStr(x) THEN << x.str >> ELSE x.list

\* s.startswith(prefix)
StartsWith(s, prefix) == Len(s) >= Len(prefix) /\ SubSeq(s, 1, Len(prefix)) = prefix

\* the message for a blocked principal type t
BlockedMessage(t) ==
    << <<"R","B","A","C"," ","R","o","l","e"," ","A","s","s","i","g","n","m","e","n","t"," ","B","l","o","c","k","e","d">>,
       <<>>,
       <<"D","i","r","e","c","t"," ","R","B","A","C"," ","r","o","l","e"," ","a","s","s","i","g","n","m","e","n","t","s"," ","t","o"," ">> \o t \o <<"s"," ","a","r","e"," ","n","o","t"," ","r","e","c","o","m","m","e","n","d","e","d",".">>,
       <<>>,
       <<"S","e","c","u","r","i","t","y"," ","B","e","s","t"," ","P","r","a","c","t","i","c","e",":">>,
       <<" "," "," ","A","z","u","r","e"," ","R","B","A","C"," ","r","o","l","e","s"," ","s","h","o","u","l","d"," ","N","O","T"," ","b","e"," ","a","s","s","i","g","n","e","d"," ","d","i","r","e","c","t","l","y"," ","t","o"," ","U","s","e","r","s"," ","o","r"," ","G","r","o","u","p","s",".">>,
       <<" "," "," ","I","n","s","t","e","a","d",","," ","u","s","e"," ","P","r","i","v","i","l","e","g","e","d"," ","I","d","e","n","t","i","t","y"," ","M","a","n","a","g","e","m","e","n","t"," ","(","P","I","M",")"," ","f","o","r"," ","u","s","e","r"," ","a","c","c","e","s","s",",">>,
       <<" "," "," ","o","r"," ","M","a","n","a","g","e","d"," ","I","d","e","n","t","i","t","i","e","s","/","S","e","r","v","i","c","e"," ","P","r","i","n","c","i","p","a","l","s"," ","f","o","r"," ","a","p","p","l","i","c","a","t","i","o","n"," ","a","c","c","e","s","s",".">>,
       <<>>,
       <<"R","e","c","o","m","m","e","n","d","e","d"," ","A","l","t","e","r","n","a","t","i","v","e","s",":">>,
       <<>>,
       <<" "," "," ","F","o","r"," ","U","s","e","r"," ","A","c","c","e","s","s"," ","-"," ","U","s","e"," ","A","z","u","r","e"," ","P","I","M"," ","(","P","r","i","v","i","l","e","g","e","d"," ","I","d","e","n","t","i","t","y"," ","M","a","n","a","g","e","m","e","n","t",")",":">>,
       <<" "," "," "," "," "," ","-"," ","P","I","M"," ","p","r","o","v","i","d","e","s"," ","j","u","s","t","-","i","n","-","t","i","m","e"," ","(","J","I","T",")"," ","p","r","i","v","i","l","e","g","e","d"," ","a","c","c","e","s","s">>,
       <<" "," "," "," "," "," ","-"," ","U","s","e","r","s"," ","a","c","t","i","v","a","t","e"," ","r","o","l","e","s"," ","o","n","l","y"," ","w","h","e","n"," ","n","e","e","d","e","d",","," ","w","i","t","h"," ","t","i","m","e","-","l","i","m","i","t","e","d"," ","a","c","c","e","s","s">>,
       <<" "," "," "," "," "," ","-"," ","R","e","q","u","i","r","e","s"," ","a","p","p","r","o","v","a","l"," ","w","o","r","k","f","l","o","w","s"," ","a","n","d"," ","a","u","d","i","t"," ","t","r","a","i","l","s">>,
       <<" "," "," "," "," "," ","-"," ","R","e","d","u","c","e","s"," ","s","t","a","n","d","i","n","g"," ","a","c","c","e","s","s"," ","a","n","d"," ","a","t","t","a","c","k"," ","s","u","r","f","a","c","e">>,
       <<" "," "," "," "," "," ","-"," ","C","o","n","f","i","g","u","r","e"," ","P","I","M"," ","a","t",":"," ","A","z","u","r","e"," ","P","o","r","t","a","l"," ",">"," ","E","n","t","r","a"," ","I","D"," ",">"," ","P","r","i","v","i","l","e","g","e","d"," ","I","d","e","n","t","i","t","y"," ","M","a","n","a","g","e","m","e","n","t">>,
       <<" "," "," ">>,
       <<" "," "," ","F","o","r"," ","A","p","p","l","i","c","a","t","i","o","n","/","S","e","r","v","i","c","e"," ","A","c","c","e","s","s"," ","-"," ","U","s","e"," ","M","a","n","a","g","e","d"," ","I","d","e","n","t","i","t","y",":">>,
       <<" "," "," "," "," "," ","-"," ","A","t","t","a","c","h"," ","a"," ","M","a","n","a","g","e","d"," ","I","d","e","n","t","i","t","y"," ","t","o"," ","y","o","u","r"," ","c","o","m","p","u","t","e"," ","r","e","s","o","u","r","c","e"," ","(","V","M",","," ","A","p","p"," ","S","e","r","v","i","c","e",","," ","F","u","n","c","t","i","o","n",","," ","e","t","c",".",")">>,
       <<" "," "," "," "," "," ","-"," ","A","s","s","i","g","n"," ","t","h","e"," ","R","B","A","C"," ","r","o","l","e"," ","t","o"," ","t","h","e"," ","M","a","n","a","g","e","d"," ","I","d","e","n","t","i","t","y","'","s"," ","P","r","i","n","c","i","p","a","l"," ","I","D">>,
       <<" "," "," "," "," "," ","-"," ","N","o"," ","c","r","e","d","e","n","t","i","a","l","s"," ","t","o"," ","m","a","n","a","g","e"," ","o","r"," ","r","o","t","a","t","e">>,
       <<" "," "," ">>,
       <<" "," "," ","F","o","r"," ","E","x","t","e","r","n","a","l"," ","A","p","p","s","/","A","u","t","o","m","a","t","i","o","n"," ","-"," ","U","s","e"," ","S","e","r","v","i","c","e"," ","P","r","i","n","c","i","p","a","l",":">>,
       <<" "," "," "," "," "," ","-"," ","C","r","e","a","t","e"," ","a","n"," ","A","p","p"," ","R","e","g","i","s","t","r","a","t","i","o","n"," ","i","n"," ","E","n","t","r","a"," ","I","D">>,
       <<" "," "," "," "," "," ","-"," ","A","s","s","i","g","n"," ","t","h","e"," ","R","B","A","C"," ","r","o","l","e"," ","t","o"," ","t","h","e"," ","S","e","r","v","i","c","e"," ","P","r","i","n","c","i","p","a","l","'","s"," ","O","b","j","e","c","t"," ","I","D">>,
       <<>>,
       <<"W","h","y"," ","D","i","r","e","c","t"," ","U","s","e","r","/","G","r","o","u","p"," ","R","B","A","C"," ","i","s"," ","N","o","t"," ","R","e","c","o","m","m","e","n","d","e","d",":">>,
       <<" "," "," ","-"," ","C","r","e","a","t","e","s"," ","p","e","r","m","a","n","e","n","t"," ","s","t","a","n","d","i","n","g"," ","a","c","c","e","s","s"," ","(","s","e","c","u","r","i","t","y"," ","r","i","s","k",")">>,
       <<" "," "," ","-"," ","N","o"," ","a","c","t","i","v","a","t","i","o","n"," ","w","o","r","k","f","l","o","w"," ","o","r"," ","t","i","m","e"," ","l","i","m","i","t","s">>,
       <<" "," "," ","-"," ","H","a","r","d","e","r"," ","t","o"," ","a","u","d","i","t"," ","a","n","d"," ","r","e","v","i","e","w">>,
       <<" "," "," ","-"," ","V","i","o","l","a","t","e","s"," ","p","r","i","n","c","i","p","l","e"," ","o","f"," ","l","e","a","s","t"," ","p","r","i","v","i","l","e","g","e">>,
       <<>>,
       <<"T","o"," ","P","r","o","c","e","e","d",":">>,
       <<" "," "," ","-"," ","F","o","r"," ","u","s","e","r"," ","a","c","c","e","s","s",":"," ","C","o","n","f","i","g","u","r","e"," ","P","I","M"," ","r","o","l","e","s"," ","i","n"," ","A","z","u","r","e"," ","P","o","r","t","a","l"," ","i","n","s","t","e","a","d">>,
       <<" "," "," ","-"," ","F","o","r"," ","a","p","p","l","i","c","a","t","i","o","n"," ","a","c","c","e","s","s",":"," ","P","r","o","v","i","d","e"," ","a"," ","M","a","n","a","g","e","d"," ","I","d","e","n","t","i","t","y"," ","P","r","i","n","c","i","p","a","l"," ","I","D"," ","o","r"," ","S","e","r","v","i","c","e"," ","P","r","i","n","c","i","p","a","l"," ","O","b","j","e","c","t"," ","I","D",",">>,
       <<" "," "," "," "," ","a","n","d"," ","s","e","t"," ","p","r","i","n","c","i","p","a","l","_","t","y","p","e"," ","t","o"," ","'","S","e","r","v","i","c","e","P","r","i","n","c","i","p","a","l","'"," ","o","r"," ","'","M","a","n","a","g","e","d","I","d","e","n","t","i","t","y","'">> >>

\* S_ServicePrincipal is the text "ServicePrincipal"
S_ServicePrincipal == <<"S","e","r","v","i","c","e","P","r","i","n","c","i","p","a","l">>
\* S_ManagedIdentity is the text "ManagedIdentity"
S_ManagedIdentity == <<"M","a","n","a","g","e","d","I","d","e","n","t","i","t","y">>

\* a list that also admits a role name as principal type
principal_types_and_owner == << S_ServicePrincipal, S_ManagedIdentity, <<"O","w","n","e","r">> >>

valid_principal_types == << S_ServicePrincipal, S_ManagedIdentity >>
blocked_types == << <<"U","s","e","r">>, <<"G","r","o","u","p">> >>

\* the entries of params that run_powershell_script passes on: those whose
\* value is neither None nor empty
RECURSIVE PsParams(_)
PsParams(params) ==
    IF params = <<>> THEN <<>>
    ELSE IF params[1][2] # None /\ params[1][2] # <<>>
    THEN << <<"-">> \o params[1][1], params[1][2] >> \o PsParams(Tail(params))
    ELSE PsParams(Tail(params))

RbacCommand(scope, object_ids, role_names, has_pwsh) ==
    << ps_executable(has_pwsh), <<"-","E","x","e","c","u","t","i","o","n","P","o","l","i","c","y">>, <<"B","y","p","a","s","s">>, <<"-","F","i","l","e">>,
       get_script_path(<<"a","s","s","i","g","n","-","a","z","u","r","e","-","r","b","a","c",".","p","s","1">>) >>
    \o PsParams(<< << <<"S","c","o","p","e">>, scope >>,
                   << <<"O","b","j","e","c","t","I","d","s">>, Join(object_ids, <<",">>) >>,
                   << <<"R","o","l","e","N","a","m","e","s">>, Join(role_names, <<",">>) >> >>)

\* assign_rbac_role(scope, object_ids, role_names, principal_type) in an
\* environment e: e.has_pwsh, e.has_script (assign-azure-rbac.ps1 exists),
\* e.os (what the operating system does with the command)
assign_rbac_role(scope, object_ids, role_names, principal_type, e) ==
    With(  (IF Falsy(scope)
            THEN << <<"s","c","o","p","e"," ","(","e",".","g",".",","," ","/","s","u","b","s","c","r","i","p","t","i","o","n","s","/","<","s","u","b","-","i","d",">","/","r","e","s","o","u","r","c","e","G","r","o","u","p","s","/","<","r","g","-","n","a","m","e",">",")">> >>
            ELSE <<>>)
        \o (IF Empty(object_ids)
            THEN << <<"o","b","j","e","c","t","_","i","d","s"," ","(","l","i","s","t"," ","o","f"," ","O","b","j","e","c","t"," ","I","D","s"," ","/"," ","P","r","i","n","c","i","p","a","l"," ","I","D","s",")">> >> ELSE <<>>)
        \o (IF Empty(role_names)
            THEN << <<"r","o","l","e","_","n","a","m","e","s"," ","(","l","i","s","t"," ","o","f"," ","r","o","l","e"," ","n","a","m","e","s",","," ","e",".","g",".",","," ","'","S","t","o","r","a","g","e"," ","B","l","o","b"," ","D","a","t","a"," ","C","o","n","t","r","i","b","u","t","o","r","'",")">> >>
            ELSE <<>>)
        \o (IF Falsy(principal_type)
            THEN << <<"p","r","i","n","c","i","p","a","l","_","t","y","p","e"," ","(","S","e","r","v","i","c","e","P","r","i","n","c","i","p","a","l"," ","o","r"," ","M","a","n","a","g","e","d","I","d","e","n","t","i","t","y",")">> >> ELSE <<>>),
         LAMBDA missing :
    IF missing # <<>>
    THEN Result(FALSE,
                << <<"M","i","s","s","i","n","g"," ","r","e","q","u","i","r","e","d"," ","p","a","r","a","m","e","t","e","r","s",":">> >>
                \o [ i \in DOMAIN missing |-> <<" "," ","-"," ">> \o missing[i] ],
                <<>>)
    ELSE
    With(Strip(principal_type), LAMBDA principal_type_normalized :
    IF InList(blocked_types, principal_type_normalized)
    THEN Result(FALSE, BlockedMessage(principal_type_normalized), <<>>)
    ELSE IF ~InList(valid_principal_types, principal_type_normalized)
    THEN Result(FALSE,
                << <<"I","n","v","a","l","i","d"," ","p","r","i","n","c","i","p","a","l","_","t","y","p","e",":"," ","'">> \o principal_type \o <<"'">>, <<>>,
                   <<"A","l","l","o","w","e","d"," ","v","a","l","u","e","s",":"," ">> \o Join(valid_principal_types, <<","," ">>), <<>>,
                   <<"N","o","t","e",":"," ","U","s","e","r"," ","a","n","d"," ","G","r","o","u","p"," ","a","s","s","i","g","n","m","e","n","t","s"," ","a","r","e"," ","b","l","o","c","k","e","d"," ","b","y"," ","p","o","l","i","c","y","."," ","U","s","e"," ","M","a","n","a","g","e","d"," ","I","d","e","n","t","i","t","y"," ","o","r"," ","S","e","r","v","i","c","e"," ","P","r","i","n","c","i","p","a","l"," ","i","n","s","t","e","a","d",".">> >>,
                <<>>)
    ELSE IF ~StartsWith(scope, <<"/","s","u","b","s","c","r","i","p","t","i","o","n","s","/">>)
    THEN Result(FALSE,
                << <<"I","n","v","a","l","i","d"," ","s","c","o","p","e"," ","f","o","r","m","a","t","."," ","S","c","o","p","e"," ","m","u","s","t"," ","s","t","a","r","t"," ","w","i","t","h"," ","'","/","s","u","b","s","c","r","i","p","t","i","o","n","s","/","<","s","u","b","s","c","r","i","p","t","i","o","n","-","i","d",">","/",".",".",".","'">>,
                   <<>>,
                   <<"E","x","a","m","p","l","e","s",":">>,
                   <<" "," ","-"," ","S","u","b","s","c","r","i","p","t","i","o","n",":"," ","/","s","u","b","s","c","r","i","p","t","i","o","n","s","/","<","s","u","b","-","i","d",">">>,
                   <<" "," ","-"," ","R","e","s","o","u","r","c","e"," ","G","r","o","u","p",":"," ","/","s","u","b","s","c","r","i","p","t","i","o","n","s","/","<","s","u","b","-","i","d",">","/","r","e","s","o","u","r","c","e","G","r","o","u","p","s","/","<","r","g","-","n","a","m","e",">">>,
                   <<" "," ","-"," ","R","e","s","o","u","r","c","e",":"," ","/","s","u","b","s","c","r","i","p","t","i","o","n","s","/","<","s","u","b","-","i","d",">","/","r","e","s","o","u","r","c","e","G","r","o","u","p","s","/","<","r","g","-","n","a","m","e",">","/","p","r","o","v","i","d","e","r","s","/","<","p","r","o","v","i","d","e","r",">","/","<","r","e","s","o","u","r","c","e","-","t","y","p","e",">","/","<","r","e","s","o","u","r","c","e","-","n","a","m","e",">">> >>,
                <<>>)
    ELSE IF ~e.has_script
    THEN Result(FALSE, << <<"E","r","r","o","r",":"," ","a","s","s","i","g","n","-","a","z","u","r","e","-","r","b","a","c",".","p","s","1"," ","n","o","t"," ","f","o","u","n","d">> >>, <<>>)
    ELSE
    With(RbacCommand(scope, EnsureList(object_ids), EnsureList(role_names), e.has_pwsh),
         LAMBDA command :
        Result(FALSE, RunCommand(command, e.os).text, << Event("rbac", command) >>))))

\* ------------------------------------------------------------------------
\* The environment: inputs of the model
\* ------------------------------------------------------------------------
\* A resource of the cloud: its name and its resource id
Res(name) == [ name |-> name, id |-> <<"/","w","s","/">> \o name ]

ResourceNames == << <<"a">>, <<"b">>, <<"c">> >>
PoolNames == { ResourceNames[i] : i \in 1..MaxListed }

\* the prerequisites (NSPs or workspaces) a resource group can hold at the
\* start, in the order the cloud lists them: at most MaxListed distinct ones
RECURSIVE Listings(_)
Listings(n) ==
    IF n = 0 THEN { <<>> }
    ELSE LET shorter == Listings(n - 1)
         IN  shorter \cup { Append(l, Res(x)) : l \in shorter, x \in PoolNames }

InitialListings ==
    { l \in Listings(MaxListed) : \A i, j \in DOMAIN l : l[i] = l[j] => i = j }

\* What check-resource.ps1 prints for a listing, in the three shapes
\* check_resource looks for; with_ids tells whether the ids are printed.
RenderListing(listing, with_ids) ==
    IF listing = <<>> THEN << <<"R","E","S","O","U","R","C","E"," ","N","O","T"," ","F","O","U","N","D">> >>
    ELSE IF Len(listing) = 1
    THEN << <<"R","E","S","O","U","R","C","E"," ","F","O","U","N","D",":"," ">> \o listing[1].name >>
         \o (IF with_ids THEN << <<"R","E","S","O","U","R","C","E"," ","I","D",":"," ">> \o listing[1].id >> ELSE <<>>)
    ELSE << <<"M","U","L","T","I","P","L","E"," ","R","E","S","O","U","R","C","E","S"," ","F","O","U","N","D">>, <<"C","O","U","N","T",":"," ">> \o IntToStr(Len(listing)) >>
         \o [ i \in DOMAIN listing |->
                <<" "," ","-"," ","N","a","m","e",":"," ">> \o listing[i].name
                \o (IF with_ids THEN <<","," ","I","D",":"," ">> \o listing[i].id ELSE <<>>) ]

\* the answers of the operating system to the check command
CheckOutcomes(listing) ==
    { Exit(0, RenderListing(listing, TRUE), <<>>),
      Exit(0, RenderListing(listing, FALSE), <<>>),
      Exit(1, <<>>, << <<"E","R","R","O","R",":"," ","(","A","u","t","h","o","r","i","z","a","t","i","o","n","F","a","i","l","e","d",")"," ","T","h","e"," ","c","l","i","e","n","t"," ","d","o","e","s"," ","n","o","t"," ","h","a","v","e"," ","a","u","t","h","o","r","i","z","a","t","i","o","n">> >>),
      Exit(1, <<>>, << <<"E","R","R","O","R",":"," ","(","R","e","s","o","u","r","c","e","N","o","t","F","o","u","n","d",")"," ","T","h","e"," ","R","e","s","o","u","r","c","e"," ","w","a","s"," ","n","o","t"," ","f","o","u","n","d">> >>),
      TimedOut, SpawnFailed }

\* the answers to the deployment command, with whether the cloud created
\* the resource
DeployOutcomes ==
    { [ os |-> Exit(0, << <<"p","r","o","v","i","s","i","o","n","i","n","g","S","t","a","t","e",":"," ","S","u","c","c","e","e","d","e","d">> >>, <<>>), created |-> TRUE ],
      [ os |-> Exit(1, << <<"p","r","o","v","i","s","i","o","n","i","n","g","S","t","a","t","e",":"," ","F","a","i","l","e","d">> >>,
                    << <<"E","R","R","O","R",":"," ","I","n","v","a","l","i","d","T","e","m","p","l","a","t","e","D","e","p","l","o","y","m","e","n","t">> >>), created |-> FALSE ],
      [ os |-> Exit(1, <<>>, <<>>), created |-> FALSE ],
      [ os |-> Exit(0, <<>>, <<>>), created |-> FALSE ],
      [ os |-> TimedOut, created |-> FALSE ],
      [ os |-> SpawnFailed, created |-> FALSE ] }

\* the answers to an attach command
AttachOutcomes ==
    { Exit(0, << <<"A","s","s","o","c","i","a","t","i","o","n"," ","c","r","e","a","t","e","d">> >>, <<>>),
      Exit(0, << <<"E","r","r","o","r",":"," ","a","s","s","o","c","i","a","t","i","o","n"," ","r","e","j","e","c","t","e","d">> >>, <<>>),
      Exit(1, << <<"F","a","i","l","e","d"," ","t","o"," ","a","t","t","a","c","h">> >>, <<>>),
      Exit(1, <<>>, << <<"A","c","c","e","s","s"," ","d","e","n","i","e","d">> >>),
      Exit(1, <<>>, <<>>),
      TimedOut, SpawnFailed }

\* template files of the prerequisite types: a file that declares the
\* parameters the workflow supplies, one that requires one more, a file
\* without declarations, and a missing file
TemplateFile(lines) == [ exists |-> TRUE, lines |-> lines ]
MissingFile == [ exists |-> FALSE, lines |-> <<>> ]

NspTemplates ==
    { TemplateFile(<< <<"@","d","e","s","c","r","i","p","t","i","o","n","(","'","N","a","m","e"," ","o","f"," ","t","h","e"," ","p","e","r","i","m","e","t","e","r","'",")">>, <<"p","a","r","a","m"," ","n","a","m","e"," ","s","t","r","i","n","g">>,
                      <<"p","a","r","a","m"," ","l","o","c","a","t","i","o","n"," ","s","t","r","i","n","g"," ","="," ","'","g","l","o","b","a","l","'">> >>),
      TemplateFile(<< <<"p","a","r","a","m"," ","n","a","m","e"," ","s","t","r","i","n","g">>, <<"p","a","r","a","m"," ","l","o","c","a","t","i","o","n"," ","s","t","r","i","n","g">>,
                      <<"p","a","r","a","m"," ","p","r","o","f","i","l","e","N","a","m","e"," ","s","t","r","i","n","g">> >>),
      TemplateFile(<< <<"/","/"," ","n","e","t","w","o","r","k"," ","s","e","c","u","r","i","t","y"," ","p","e","r","i","m","e","t","e","r">> >>),
      MissingFile }

LawTemplates ==
    { TemplateFile(<< <<"@","d","e","s","c","r","i","p","t","i","o","n","(","'","W","o","r","k","s","p","a","c","e"," ","n","a","m","e","'",")">>, <<"p","a","r","a","m"," ","w","o","r","k","s","p","a","c","e","N","a","m","e"," ","s","t","r","i","n","g">>,
                      <<"p","a","r","a","m"," ","l","o","c","a","t","i","o","n"," ","s","t","r","i","n","g"," ","="," ","r","e","s","o","u","r","c","e","G","r","o","u","p","(",")",".","l","o","c","a","t","i","o","n">> >>),
      TemplateFile(<< <<"p","a","r","a","m"," ","w","o","r","k","s","p","a","c","e","N","a","m","e"," ","s","t","r","i","n","g">>, <<"p","a","r","a","m"," ","l","o","c","a","t","i","o","n"," ","s","t","r","i","n","g">>,
                      <<"p","a","r","a","m"," ","r","e","t","e","n","t","i","o","n","I","n","D","a","y","s"," ","i","n","t">> >>),
      TemplateFile(<< <<"/","/"," ","l","o","g"," ","a","n","a","l","y","t","i","c","s"," ","w","o","r","k","s","p","a","c","e">> >>),
      MissingFile }

\* the regular answers: the lookup lists the resource group with ids, the
\* create step deploys and the cloud creates the resource, the attach
\* command exits with 0
NominalCheck(e, listing) ==
    e.has_script /\ e.os = Exit(0, RenderListing(listing, TRUE), <<>>)
NominalCreate(r, d) == r.deployed /\ d.created
\* the command timed out, could not be started or ended with an exit code
\* other than 0
CommandFailed(os) == os.kind # "exit" \/ os.rc # 0

NominalAttach(os) == os.kind = "exit" /\ os.rc = 0 /\ os.stderr = <<>>

\* the environment record deploy_bicep reads, for a type that needs no
\* derivation
NoVnet == [ show |-> <<>>, subnets |-> <<>> ]
NoHttp == [ ok |-> FALSE, regions |-> <<>> ]

DeployEnv(has_pwsh, template, has_deploy_script, os_deploy) ==
    [ has_pwsh |-> has_pwsh, template |-> template,
      has_deploy_script |-> has_deploy_script, has_post_script |-> FALSE,
      os_token |-> SpawnFailed, http |-> NoHttp, vnet |-> NoVnet,
      os_deploy |-> os_deploy, principal |-> "none", os_post |-> SpawnFailed ]

\* arguments of the two compliance tools
ResourceGroupArgs == { None, <<" ">>, <<"r","g">> }
ResourceIdArgs == { None, <<"/","r","1">> }
NspNameArgs == { None, <<"b">>, <<"z","z">> }
WorkspaceIdArgs == { None, <<"/","w","s","/","b">>, <<"/","w","s","/","z","z">> }

\* ------------------------------------------------------------------------
\* State
\* ------------------------------------------------------------------------
VARIABLES
    pc,             \* where the running tool stands: "idle", "check", "create",
                    \* "recheck", "attach", "done"
    run,            \* number of finished invocations
    tool,           \* the tool invoked: "attach_to_nsp", "attach_diagnostic_settings"
    args,           \* its arguments [resource_group, name, resource_id]; name is
                    \* nsp_name or workspace_id as the caller passed it
    nsp_name,       \* local variable nsp_name of attach_to_nsp
    workspace_id,   \* local variable workspace_id of attach_diagnostic_settings
    workspace_name, \* local variable workspace_name
    check_data,     \* the parsed result of the first lookup
    output,         \* the narrative lines collected so far
    result,         \* how the invocation ended: [status, text]
    calls,          \* the external calls and create steps of this invocation
    attach_os,      \* what the operating system did with the attach command
    check_failed,   \* whether the lookup command of this run timed out, could not be
                    \* started or ended with an exit code other than 0
    create_ok,      \* the create step: "none" (not taken), "deployed" (deploy_bicep
                    \* reported success), "failed" (anything else)
    nominal,        \* no script or template was missing and every command ran to
                    \* exit code 0 with its regular output, in all invocations so far
    cloud,          \* the prerequisites the resource group holds, as listed
    prev,           \* summary of the previous invocation
    call,           \* a call of a function of agent/utils.py: its name and inputs
    ret             \* what that call returned

vars == << pc, run, tool, args, nsp_name, workspace_id, workspace_name, check_data,
           output, result, calls, attach_os, check_failed, create_ok, nominal, cloud, prev, call, ret >>

NoCheck == CheckData("none", FALSE, FALSE, 0, <<>>, FALSE, <<>>)
NoResult == [ status |-> "none", text |-> <<>> ]
NoOutcome == [ kind |-> "none", rc |-> 0, stdout |-> <<>>, stderr |-> <<>> ]
NoPrev == [ valid |-> FALSE, succeeded |-> FALSE, attached |-> FALSE, target |-> None ]
NoArgs == [ resource_group |-> None, name |-> None, resource_id |-> None ]

NoCall == [ fn |-> "none" ]
NoRet == [ fn |-> "none" ]

\* no tool has been invoked yet
Fresh ==
    /\ pc = "idle"
    /\ run = 0
    /\ tool = "none"
    /\ args = NoArgs
    /\ nsp_name = None
    /\ workspace_id = None
    /\ workspace_name = None
    /\ check_data = NoCheck
    /\ output = <<>>
    /\ result = NoResult
    /\ calls = <<>>
    /\ attach_os = NoOutcome
    /\ check_failed = FALSE
    /\ create_ok = "none"
    /\ nominal = TRUE
    /\ prev = NoPrev

Init ==
    /\ Fresh
    /\ cloud \in InitialListings
    /\ call = NoCall
    /\ ret = NoRet

\* return text
Return(text) ==
    /\ result' = [ status |-> "returned", text |-> text ]
    /\ pc' = "done"

\* the call ends by an exception
Raise ==
    /\ result' = [ status |-> "raised", text |-> <<>> ]
    /\ pc' = "done"

\* the cloud after a deployment that created `name`
Deployed(listing, name) ==
    IF \E i \in DOMAIN listing : listing[i].name = name THEN listing
    ELSE Append(listing, Res(name))

\* a tool is invoked for the first time with any arguments; after an
\* invocation that reported success it is invoked again with the same
\* arguments (the re-run of the idempotence scenario)
Invocable(t, a) ==
    /\ pc = "idle"
    /\ run < MaxRuns
    /\ run > 0 => (prev.succeeded /\ tool = t /\ args = a)

Begin(t, a) ==
    /\ tool' = t
    /\ args' = a
    /\ UNCHANGED << run, check_data, calls, attach_os, check_failed, create_ok, nominal,
                    workspace_name,
                    cloud, prev, call, ret >>

\* ------------------------------------------------------------------------
\* Compliance Orchestrator: attach_to_nsp (agent/azure.py)
\* ------------------------------------------------------------------------
\* S_WorkflowCompleted is the text "Workflow completed"
S_WorkflowCompleted == <<"W","o","r","k","f","l","o","w"," ","c","o","m","p","l","e","t","e","d">>
\* S_nsp is the text "nsp"
S_nsp == <<"n","s","p">>
\* S_log_analytics is the text "log-analytics"
S_log_analytics == <<"l","o","g","-","a","n","a","l","y","t","i","c","s">>

BadArg(s) == Falsy(s) \/ Strip(s) = <<>>

\* resources[0] or, when the caller named one that is listed, that one
SelectNspFirst(resources, name) == resources[1].name

SelectNsp(resources, name) ==
    LET matching == Filter(resources, { i \in DOMAIN resources : resources[i].name = name })
    IN  IF ~Falsy(name) /\ matching # <<>> THEN matching[1].name ELSE resources[1].name

\* lines 396-409: argument checks and the head of the narrative
NspStart(a) ==
    /\ Invocable("attach_to_nsp", a)
    /\ Begin("attach_to_nsp", a)
    /\ nsp_name' = a.name
    /\ UNCHANGED workspace_id
    /\ IF BadArg(a.resource_group)
       THEN /\ Return(<< <<"E","r","r","o","r",":"," ","R","e","s","o","u","r","c","e"," ","g","r","o","u","p"," ","n","a","m","e"," ","i","s"," ","r","e","q","u","i","r","e","d">> >>)
            /\ output' = <<>>
       ELSE IF BadArg(a.resource_id)
       THEN /\ Return(<< <<"E","r","r","o","r",":"," ","R","e","s","o","u","r","c","e"," ","I","D"," ","i","s"," ","r","e","q","u","i","r","e","d">> >>)
            /\ output' = <<>>
       ELSE /\ output' = << <<"S","t","a","r","t","i","n","g"," ","N","S","P"," ","A","t","t","a","c","h","m","e","n","t"," ","W","o","r","k","f","l","o","w">>, S_Rule, <<>>,
                            <<"S","t","e","p"," ","1","/","3",":"," ","C","h","e","c","k","i","n","g"," ","f","o","r"," ","e","x","i","s","t","i","n","g"," ","N","S","P",".",".",".">> >>
            /\ pc' = "check"
            /\ result' = NoResult

\* nsp_name = nsp_name or f"{resource_group}-nsp"
NspCreateNameUnderscore(name, resource_group) == OrElse(name, resource_group \o <<"_","n","s","p">>)

NspCreateName(name, resource_group) == OrElse(name, resource_group \o <<"-","n","s","p">>)

\* lines 410-421 and 432-447: the lookup and the branch on its count
NspCheck(e) ==
    /\ pc = "check"
    /\ tool = "attach_to_nsp"
    /\ UNCHANGED << call, ret >>
    /\ \E data \in { check_resource(args.resource_group, S_nsp, e) } :
           /\ check_data' = data
           /\ nominal' = (nominal /\ NominalCheck(e, cloud))
           /\ calls' = calls \o (IF data.command # <<>> THEN << Event("check", S_nsp) >>
                                 ELSE <<>>)
           /\ IF NeedsCreate(data)
              THEN /\ output' = output \o << <<" "," "," "," ","N","o"," ","N","S","P"," ","f","o","u","n","d"," ","i","n"," ","r","e","s","o","u","r","c","e"," ","g","r","o","u","p">>, <<>>,
                                             <<"S","t","e","p"," ","2","/","3",":"," ","C","r","e","a","t","i","n","g"," ","N","S","P",".",".",".">> >>
                   /\ nsp_name' = NspCreateName(nsp_name, args.resource_group)
                   /\ pc' = "create"
                   /\ UNCHANGED result
              ELSE IF data.resources = <<>>
              THEN /\ Return(output \o << <<>>, <<"E","r","r","o","r",":"," ","N","S","P"," ","c","h","e","c","k"," ","r","e","t","u","r","n","e","d"," ","i","n","v","a","l","i","d"," ","d","a","t","a">> >>)
                   /\ UNCHANGED << output, nsp_name >>
              ELSE /\ nsp_name' = SelectNsp(data.resources, nsp_name)
                   /\ output' = output
                          \o << <<" "," "," "," ","F","o","u","n","d"," ","e","x","i","s","t","i","n","g"," ","N","S","P",":"," ","'">> \o nsp_name' \o <<"'">>,
                                <<>>,
                                <<"S","t","e","p"," ","2","/","3",":"," ","S","k","i","p","p","i","n","g"," ","N","S","P"," ","c","r","e","a","t","i","o","n"," ","(","a","l","r","e","a","d","y"," ","e","x","i","s","t","s",")">> >>
                   /\ pc' = "attach"
                   /\ UNCHANGED result
    /\ check_failed' = (e.has_script /\ CommandFailed(e.os))
    /\ UNCHANGED << run, tool, args, workspace_id, workspace_name, attach_os, create_ok,
                    cloud, prev >>

\* any(err in create_result.lower() for err in ERROR_KEYWORDS)
CreateFailed(create_result) == ContainsAny(LowerText(create_result), ERROR_KEYWORDS)

\* whether the deployment script ran and the cloud created the resource
CloudCreated(create_calls, d) == CountOp(create_calls, "deploy") > 0 /\ d.created

\* lines 422-430: the create step
NspCreate(e, d) ==
    /\ pc = "create"
    /\ tool = "attach_to_nsp"
    /\ UNCHANGED << call, ret >>
    /\ \E create_params \in { << << <<"n","a","m","e">>, nsp_name >>, << <<"l","o","c","a","t","i","o","n">>, <<"g","l","o","b","a","l">> >> >> } :
       \E r \in { create_resource(S_nsp, args.resource_group, JsonOf(create_params), e) } :
           /\ calls' = calls \o << Event("create_resource", create_params) >> \o r.calls
           /\ create_ok' = IF r.deployed THEN "deployed" ELSE "failed"
           /\ nominal' = (nominal /\ NominalCreate(r, d))
           /\ cloud' = IF CloudCreated(r.calls, d) THEN Deployed(cloud, nsp_name) ELSE cloud
           /\ IF r.raised
              THEN Raise /\ UNCHANGED output
              ELSE IF CreateFailed(r.text)
              THEN /\ Return(output \o << <<>>, <<"F","a","i","l","e","d"," ","t","o"," ","c","r","e","a","t","e"," ","N","S","P",":">> >> \o r.text)
                   /\ UNCHANGED output
              ELSE /\ output' = output
                          \o << <<" "," "," "," ","N","S","P"," ","'">> \o nsp_name \o <<"'"," ","c","r","e","a","t","e","d"," ","s","u","c","c","e","s","s","f","u","l","l","y">> >>
                   /\ pc' = "attach"
                   /\ UNCHANGED result
    /\ UNCHANGED << run, tool, args, nsp_name, workspace_id, workspace_name, check_data,
                    attach_os, check_failed, prev >>

NspAttachCommand(has_pwsh) ==
    << ps_executable(has_pwsh), <<"-","E","x","e","c","u","t","i","o","n","P","o","l","i","c","y">>, <<"B","y","p","a","s","s">>, <<"-","F","i","l","e">>,
       get_script_path(<<"a","t","t","a","c","h","-","n","s","p",".","p","s","1">>),
       <<"-","R","e","s","o","u","r","c","e","G","r","o","u","p","N","a","m","e">>, args.resource_group,
       <<"-","N","s","p","N","a","m","e">>, nsp_name,
       <<"-","R","e","s","o","u","r","c","e","I","d">>, args.resource_id >>

\* any(err in result for err in ERROR_KEYWORDS)
AttachFailed(attach_result) == ContainsAny(attach_result, ERROR_KEYWORDS)

\* lines 449-485: the attach step and the end of the narrative
NspAttach(has_pwsh, has_script, os) ==
    /\ pc = "attach"
    /\ tool = "attach_to_nsp"
    /\ UNCHANGED << call, ret >>
    /\ \E out1 \in { output \o << <<>>, <<"S","t","e","p"," ","3","/","3",":"," ","A","t","t","a","c","h","i","n","g"," ","r","e","s","o","u","r","c","e"," ","t","o"," ","N","S","P",".",".",".">> >> } :
       \E r \in { RunCommand(NspAttachCommand(has_pwsh), os) } :
           IF ~has_script
           THEN /\ Return(out1 \o << <<>>, <<"E","r","r","o","r",":"," ","a","t","t","a","c","h","-","n","s","p",".","p","s","1"," ","s","c","r","i","p","t"," ","n","o","t"," ","f","o","u","n","d">> >>)
                /\ output' = out1
                /\ nominal' = FALSE
                /\ UNCHANGED << calls, attach_os >>
           ELSE /\ calls' = Append(calls, Event("attach", nsp_name))
                /\ nominal' = (nominal /\ NominalAttach(os))
                /\ attach_os' = IF r.raised THEN NoOutcome ELSE os
                /\ IF r.raised
                   THEN Raise /\ output' = out1
                   ELSE IF AttachFailed(r.text)
                   THEN LET out2 == out1 \o << <<" "," "," ","F","a","i","l","e","d"," ","t","o"," ","a","t","t","a","c","h"," ","r","e","s","o","u","r","c","e"," ","t","o"," ","N","S","P">>, <<>>,
                                               S_Rule, <<"E","r","r","o","r"," ","D","e","t","a","i","l","s",":">> >> \o r.text
                        IN  Return(out2) /\ output' = out2
                   ELSE LET out2 == out1
                                \o << <<" "," "," "," ","R","e","s","o","u","r","c","e"," ","a","t","t","a","c","h","e","d"," ","t","o"," ","N","S","P"," ","'">> \o nsp_name \o <<"'">>,
                                      <<>>, S_Rule, S_WorkflowCompleted, <<>>,
                                      <<"N","e","t","w","o","r","k"," ","s","e","c","u","r","i","t","y"," ","c","o","m","p","l","i","a","n","c","e"," ","r","e","s","o","l","v","e","d",".">>, <<>>,
                                      <<"S","u","m","m","a","r","y",":">>,
                                      <<" "," "," "," ","R","e","s","o","u","r","c","e"," ","G","r","o","u","p",":"," ">> \o args.resource_group,
                                      <<" "," "," "," ","N","S","P"," ","N","a","m","e",":"," ">> \o nsp_name,
                                      <<" "," "," "," ","R","e","s","o","u","r","c","e"," ","a","t","t","a","c","h","e","d"," ","a","n","d"," ","s","e","c","u","r","e","d">> >>
                        IN  Return(out2) /\ output' = out2
    /\ UNCHANGED << run, tool, args, nsp_name, workspace_id, workspace_name, check_data,
                    check_failed, create_ok, cloud, prev >>

\* ------------------------------------------------------------------------
\* Compliance Orchestrator: attach_diagnostic_settings (agent/azure.py)
\* ------------------------------------------------------------------------
\* workspace_id.split("/")[-1] if "/" in workspace_id else workspace_id
LastSegment(id) == LET parts == Split(id, "/") IN parts[Len(parts)]

\* workspace_name = f"{resource_group}-law"
LawCreateName(resource_group) == resource_group \o <<"-","l","a","w">>

\* lines 488-501
LawStart(a) ==
    /\ Invocable("attach_diagnostic_settings", a)
    /\ Begin("attach_diagnostic_settings", a)
    /\ workspace_id' = a.name
    /\ UNCHANGED nsp_name
    /\ IF BadArg(a.resource_group)
       THEN /\ Return(<< <<"E","r","r","o","r",":"," ","R","e","s","o","u","r","c","e"," ","g","r","o","u","p"," ","n","a","m","e"," ","i","s"," ","r","e","q","u","i","r","e","d">> >>)
            /\ output' = <<>>
       ELSE IF BadArg(a.resource_id)
       THEN /\ Return(<< <<"E","r","r","o","r",":"," ","R","e","s","o","u","r","c","e"," ","I","D"," ","i","s"," ","r","e","q","u","i","r","e","d">> >>)
            /\ output' = <<>>
       ELSE /\ output' = << <<" ","S","t","a","r","t","i","n","g"," ","L","o","g"," ","A","n","a","l","y","t","i","c","s"," ","C","o","n","f","i","g","u","r","a","t","i","o","n"," ","W","o","r","k","f","l","o","w">>, S_Rule, <<>>,
                            <<"S","t","e","p"," ","1","/","3",":"," ","C","h","e","c","k","i","n","g"," ","f","o","r"," ","e","x","i","s","t","i","n","g"," ","L","o","g"," ","A","n","a","l","y","t","i","c","s"," ","W","o","r","k","s","p","a","c","e",".",".",".">> >>
            /\ pc' = "check"
            /\ result' = NoResult

\* lines 502-515 and 537-549
LawCheck(e) ==
    /\ pc = "check"
    /\ tool = "attach_diagnostic_settings"
    /\ UNCHANGED << call, ret >>
    /\ \E data \in { check_resource(args.resource_group, S_log_analytics, e) } :
           /\ check_data' = data
           /\ nominal' = (nominal /\ NominalCheck(e, cloud))
           /\ calls' = calls \o (IF data.command # <<>>
                                 THEN << Event("check", S_log_analytics) >> ELSE <<>>)
           /\ IF NeedsCreate(data)
              THEN /\ output' = output \o << <<" "," "," "," ","N","o"," ","L","o","g"," ","A","n","a","l","y","t","i","c","s"," ","W","o","r","k","s","p","a","c","e"," ","f","o","u","n","d">>, <<>>,
                                             <<"S","t","e","p"," ","2","/","3",":"," ","C","r","e","a","t","i","n","g"," ","L","o","g"," ","A","n","a","l","y","t","i","c","s"," ","W","o","r","k","s","p","a","c","e",".",".",".">> >>
                   /\ workspace_name' = LawCreateName(args.resource_group)
                   /\ pc' = "create"
                   /\ UNCHANGED << result, workspace_id >>
              ELSE IF data.resources = <<>>
              THEN /\ Return(output
                             \o << <<>>, <<"E","r","r","o","r",":"," ","L","o","g"," ","A","n","a","l","y","t","i","c","s"," ","c","h","e","c","k"," ","r","e","t","u","r","n","e","d"," ","i","n","v","a","l","i","d"," ","d","a","t","a">> >>)
                   /\ UNCHANGED << output, workspace_id, workspace_name >>
              ELSE /\ workspace_id' = IF Falsy(workspace_id) THEN data.resources[1].id
                                      ELSE workspace_id
                   /\ workspace_name' = IF Falsy(workspace_id) THEN data.resources[1].name
                                        ELSE LastSegment(workspace_id)
                   /\ output' = output
                          \o << <<" "," "," "," ","F","o","u","n","d"," ","e","x","i","s","t","i","n","g"," ","L","o","g"," ","A","n","a","l","y","t","i","c","s"," ","W","o","r","k","s","p","a","c","e",":"," ","'">>
                                    \o Str(workspace_name') \o <<"'">>,
                                <<>>,
                                <<"S","t","e","p"," ","2","/","3",":"," ","S","k","i","p","p","i","n","g"," ","w","o","r","k","s","p","a","c","e"," ","c","r","e","a","t","i","o","n"," ","(","a","l","r","e","a","d","y"," ","e","x","i","s","t","s",")">> >>
                   /\ pc' = "attach"
                   /\ UNCHANGED result
    /\ check_failed' = (e.has_script /\ CommandFailed(e.os))
    /\ UNCHANGED << run, tool, args, nsp_name, attach_os, create_ok, cloud, prev >>

\* lines 516-526
LawCreate(e, d) ==
    /\ pc = "create"
    /\ tool = "attach_diagnostic_settings"
    /\ UNCHANGED << call, ret >>
    /\ \E create_params \in { << << <<"w","o","r","k","s","p","a","c","e","N","a","m","e">>, workspace_name >>,
                                << <<"l","o","c","a","t","i","o","n">>, <<"e","a","s","t","u","s">> >> >> } :
       \E r \in { create_resource(S_log_analytics, args.resource_group,
                                  JsonOf(create_params), e) } :
           /\ calls' = calls \o << Event("create_resource", create_params) >> \o r.calls
           /\ create_ok' = IF r.deployed THEN "deployed" ELSE "failed"
           /\ nominal' = (nominal /\ NominalCreate(r, d))
           /\ cloud' = IF CloudCreated(r.calls, d) THEN Deployed(cloud, workspace_name)
                       ELSE cloud
           /\ IF r.raised
              THEN Raise /\ UNCHANGED output
              ELSE IF CreateFailed(r.text)
              THEN /\ Return(output \o << <<>>, <<"F","a","i","l","e","d"," ","t","o"," ","c","r","e","a","t","e"," ","L","o","g"," ","A","n","a","l","y","t","i","c","s"," ","W","o","r","k","s","p","a","c","e",":">> >>
                                    \o r.text)
                   /\ UNCHANGED output
              ELSE /\ output' = output
                          \o << <<" "," "," "," ","L","o","g"," ","A","n","a","l","y","t","i","c","s"," ","W","o","r","k","s","p","a","c","e"," ","'">> \o workspace_name
                                    \o <<"'"," ","c","r","e","a","t","e","d"," ","s","u","c","c","e","s","s","f","u","l","l","y">> >>
                   /\ pc' = "recheck"
                   /\ UNCHANGED result
    /\ UNCHANGED << run, tool, args, nsp_name, workspace_id, workspace_name, check_data,
                    attach_os, check_failed, prev >>

\* lines 528-535: the lookup after the creation
LawRecheck(e) ==
    /\ pc = "recheck"
    /\ tool = "attach_diagnostic_settings"
    /\ UNCHANGED << call, ret >>
    /\ \E check_data_new \in { check_resource(args.resource_group, S_log_analytics, e) } :
       \E resources_new \in { check_data_new.resources } :
           /\ nominal' = (nominal /\ NominalCheck(e, cloud))
           /\ calls' = calls \o (IF check_data_new.command # <<>>
                                 THEN << Event("check", S_log_analytics) >> ELSE <<>>)
           /\ workspace_id' = IF resources_new # <<>> THEN resources_new[1].id
                              ELSE workspace_id
    /\ pc' = "attach"
    /\ UNCHANGED << run, tool, args, nsp_name, workspace_name, check_data, output, result,
                    attach_os, check_failed, create_ok, cloud, prev >>

LawAttachCommand(has_pwsh) ==
    << ps_executable(has_pwsh), <<"-","E","x","e","c","u","t","i","o","n","P","o","l","i","c","y">>, <<"B","y","p","a","s","s">>, <<"-","F","i","l","e">>,
       get_script_path(<<"a","t","t","a","c","h","-","l","o","g","-","a","n","a","l","y","t","i","c","s",".","p","s","1">>),
       <<"-","R","e","s","o","u","r","c","e","G","r","o","u","p","N","a","m","e">>, args.resource_group,
       <<"-","W","o","r","k","s","p","a","c","e","I","d">>, workspace_id,
       <<"-","R","e","s","o","u","r","c","e","I","d">>, args.resource_id >>

\* lines 551-587
LawAttach(has_pwsh, has_script, os) ==
    /\ pc = "attach"
    /\ tool = "attach_diagnostic_settings"
    /\ UNCHANGED << call, ret >>
    /\ \E out1 \in { output \o << <<>>, <<"S","t","e","p"," ","3","/","3",":"," ","C","o","n","f","i","g","u","r","i","n","g"," ","d","i","a","g","n","o","s","t","i","c"," ","s","e","t","t","i","n","g","s",".",".",".">> >> } :
       \E r \in { RunCommand(LawAttachCommand(has_pwsh), os) } :
           IF ~has_script
           THEN /\ Return(out1
                          \o << <<>>, <<"E","r","r","o","r",":"," ","a","t","t","a","c","h","-","l","o","g","-","a","n","a","l","y","t","i","c","s",".","p","s","1"," ","s","c","r","i","p","t"," ","n","o","t"," ","f","o","u","n","d">> >>)
                /\ output' = out1
                /\ nominal' = FALSE
                /\ UNCHANGED << calls, attach_os >>
           ELSE /\ calls' = Append(calls, Event("attach", workspace_id))
                /\ nominal' = (nominal /\ NominalAttach(os))
                /\ attach_os' = IF r.raised THEN NoOutcome ELSE os
                /\ IF r.raised
                   THEN Raise /\ output' = out1
                   ELSE IF AttachFailed(r.text)
                   THEN LET out2 == out1 \o << <<" "," "," ","F","a","i","l","e","d"," ","t","o"," ","c","o","n","f","i","g","u","r","e"," ","d","i","a","g","n","o","s","t","i","c"," ","s","e","t","t","i","n","g","s">>,
                                               <<>>, S_Rule, <<"E","r","r","o","r"," ","D","e","t","a","i","l","s",":">> >> \o r.text
                        IN  Return(out2) /\ output' = out2
                   ELSE LET out2 == out1
                                \o << <<" "," "," "," ","D","i","a","g","n","o","s","t","i","c"," ","s","e","t","t","i","n","g","s"," ","c","o","n","f","i","g","u","r","e","d"," ","s","u","c","c","e","s","s","f","u","l","l","y">>,
                                      <<>>, S_Rule, S_WorkflowCompleted, <<>>,
                                      <<"M","o","n","i","t","o","r","i","n","g"," ","c","o","m","p","l","i","a","n","c","e"," ","r","e","s","o","l","v","e","d",".">>, <<>>,
                                      <<"S","u","m","m","a","r","y",":">>,
                                      <<" "," "," "," ","R","e","s","o","u","r","c","e"," ","G","r","o","u","p",":"," ">> \o args.resource_group,
                                      <<" "," "," "," ","L","o","g"," ","A","n","a","l","y","t","i","c","s"," ","W","o","r","k","s","p","a","c","e",":"," ">> \o Str(workspace_name),
                                      <<" "," "," "," ","D","i","a","g","n","o","s","t","i","c"," ","s","e","t","t","i","n","g","s"," ","e","n","a","b","l","e","d"," ","a","n","d"," ","m","o","n","i","t","o","r","i","n","g"," ","a","c","t","i","v","e">> >>
                        IN  Return(out2) /\ output' = out2
    /\ UNCHANGED << run, tool, args, nsp_name, workspace_id, workspace_name, check_data,
                    check_failed, create_ok, cloud, prev >>

\* ------------------------------------------------------------------------
\* The caller takes the result; the locals of the invocation are gone
\* ------------------------------------------------------------------------
Succeeded == result.status = "returned" /\ Contains(result.text, S_WorkflowCompleted)

AttachEvents == Filter(calls, { i \in DOMAIN calls : calls[i].op = "attach" })
CreateEvents == Filter(calls, { i \in DOMAIN calls : calls[i].op = "create_resource" })

Finish ==
    /\ pc = "done"
    /\ pc' = "idle"
    /\ run' = run + 1
    /\ prev' = [ valid |-> TRUE, succeeded |-> Succeeded,
                 attached |-> AttachEvents # <<>>,
                 target |-> IF AttachEvents # <<>> THEN AttachEvents[1].arg ELSE None ]
    /\ nsp_name' = None
    /\ workspace_id' = None
    /\ workspace_name' = None
    /\ check_data' = NoCheck
    /\ output' = <<>>
    /\ result' = NoResult
    /\ calls' = <<>>
    /\ attach_os' = NoOutcome
    /\ check_failed' = FALSE
    /\ create_ok' = "none"
    /\ UNCHANGED << tool, args, nominal, cloud, call, ret >>

\* ------------------------------------------------------------------------
\* Next-state relation
\* ------------------------------------------------------------------------
\* the environments of a lookup: the script is missing, or it is there and
\* the operating system gives one of its answers
CheckEnvs ==
    { [ has_pwsh |-> TRUE, has_script |-> FALSE, os |-> SpawnFailed ] }
    \cup { [ has_pwsh |-> TRUE, has_script |-> TRUE, os |-> o ] : o \in CheckOutcomes(cloud) }

\* the environments of a create step, with the answer of the cloud: the
\* deployment script is missing, or it is there and gives one of its answers
NoDeploy == [ os |-> SpawnFailed, created |-> FALSE ]

CreateEnvs(templates) ==
    { << DeployEnv(TRUE, t, FALSE, NoDeploy.os), NoDeploy >> : t \in templates }
    \cup { << DeployEnv(TRUE, t, TRUE, d.os), d >> : t \in templates, d \in DeployOutcomes }

\* the environments of an attach step: <<has_pwsh, has_script, os>>
AttachEnvs ==
    { << TRUE, FALSE, SpawnFailed >> }
    \cup { << TRUE, TRUE, o >> : o \in AttachOutcomes }

NspArgs ==
    { [ resource_group |-> g, name |-> n, resource_id |-> r ] :
        g \in ResourceGroupArgs, n \in NspNameArgs, r \in ResourceIdArgs }

LawArgs ==
    { [ resource_group |-> g, name |-> n, resource_id |-> r ] :
        g \in ResourceGroupArgs, n \in WorkspaceIdArgs, r \in ResourceIdArgs }

Next ==
    \/ \E a \in NspArgs : NspStart(a)
    \/ \E e \in CheckEnvs : NspCheck(e)
    \/ \E c \in CreateEnvs(NspTemplates) : NspCreate(c[1], c[2])
    \/ \E x \in AttachEnvs : NspAttach(x[1], x[2], x[3])
    \/ \E a \in LawArgs : LawStart(a)
    \/ \E e \in CheckEnvs : LawCheck(e)
    \/ \E c \in CreateEnvs(LawTemplates) : LawCreate(c[1], c[2])
    \/ \E e \in CheckEnvs : LawRecheck(e)
    \/ \E x \in AttachEnvs : LawAttach(x[1], x[2], x[3])
    \/ Finish

Spec == Init /\ [][Next]_vars

\* ------------------------------------------------------------------------
\* Calls of validate_bicep_parameters (agent/utils.py)
\* ------------------------------------------------------------------------
\* the parameters a template of the model can declare
DeclarableNames == << <<"n","a","m","e">>, <<"l","o","c","a","t","i","o","n">>, <<"s","u","b","n","e","t","S","t","a","r","t","i","n","g","A","d","d","r","e","s","s">> >>

Decl(name, has_default) == [ name |-> name, has_default |-> has_default ]

\* the declaration lists: at most MaxDeclared of the declarable names, in
\* the order above, each with or without a default
RECURSIVE DeclLists(_)
DeclLists(i) ==
    IF i > Len(DeclarableNames) THEN { <<>> }
    ELSE LET rest == DeclLists(i + 1)
         IN  rest \cup { << Decl(DeclarableNames[i], d) >> \o l : d \in BOOLEAN, l \in rest }

Declarations == { l \in DeclLists(1) : Len(l) <= MaxDeclared }

\* the text of a template file with these declarations
RECURSIVE TemplateLines(_)
TemplateLines(decls) ==
    IF decls = <<>> THEN << <<"o","u","t","p","u","t"," ","i","d"," ","s","t","r","i","n","g"," ","="," ","r","e","s",".","i","d">> >>
    ELSE << <<"@","d","e","s","c","r","i","p","t","i","o","n","(","'","T","h","e"," ">> \o Head(decls).name \o <<"'",")">>,
            <<"p","a","r","a","m"," ">> \o Head(decls).name \o <<" ","s","t","r","i","n","g">>
                \o (IF Head(decls).has_default THEN <<" ","="," ","'","e","a","s","t","u","s","'">> ELSE <<>>) >>
         \o TemplateLines(Tail(decls))

\* the values a caller can give a parameter: the key is left out, or its
\* value is None, "" or a text
Unset == << "<unset>" >>
SuppliedValues == { Unset, None, <<>>, <<"v">> }

RECURSIVE SuppliedMaps(_)
SuppliedMaps(i) ==
    IF i > Len(DeclarableNames) THEN { <<>> }
    ELSE { (IF v = Unset THEN <<>> ELSE << << DeclarableNames[i], v >> >>) \o m :
             v \in SuppliedValues, m \in SuppliedMaps(i + 1) }

ValidatedTypes == ToSet(Keys(TEMPLATE_MAP)) \cup { <<"u","n","k","n","o","w","n">> }

ValidateCalls ==
    { [ fn |-> "validate_bicep_parameters", resource_type |-> t, provided |-> m,
        exists |-> x, decls |-> d ] :
        t \in ValidatedTypes, m \in SuppliedMaps(1), x \in BOOLEAN, d \in Declarations }

InitValidate ==
    /\ Fresh
    /\ cloud = <<>>
    /\ call \in { c \in ValidateCalls : c.exists \/ c.decls = <<>> }
    /\ ret = NoRet

\* the call returns
Validate ==
    /\ call.fn = "validate_bicep_parameters"
    /\ ret = NoRet
    /\ ret' = validate_bicep_parameters(
                  call.resource_type, call.provided,
                  [ exists |-> call.exists, lines |-> TemplateLines(call.decls) ])
    /\ UNCHANGED << pc, run, tool, args, nsp_name, workspace_id, workspace_name, check_data,
                    output, result, calls, attach_os, check_failed, create_ok, nominal, cloud, prev, call >>

NextValidate == Validate

SpecValidate == InitValidate /\ [][NextValidate]_vars

\* ------------------------------------------------------------------------
\* Calls of the tools create_resource and deploy_bicep_resource
\* (agent/server.py, azure_create_resource and azure_deploy_bicep_resource)
\* ------------------------------------------------------------------------
\* what the caller supplies beyond the declarable names, by resource type
ExtraSupplied(resource_type) ==
    IF resource_type = <<"s","u","b","n","e","t">>
    THEN { <<>>, << << <<"v","n","e","t","N","a","m","e">>, <<>> >> >>,
           << << <<"v","n","e","t","N","a","m","e">>, <<"v">> >>, << <<"s","u","b","n","e","t","S","i","z","e">>, <<"2","9">> >> >> }
    ELSE IF resource_type = <<"s","t","o","r","a","g","e","-","a","c","c","o","u","n","t">>
    THEN { <<>> } \cup { << << <<"a","c","c","e","s","s","T","i","e","r">>, t >> >> : t \in { <<"h","o","t">>, <<"H","O","T">>, <<"H","o","t">>, <<"c","O","O","L">> } }
    ELSE { <<>> }

\* the virtual networks of the model: not readable, one with room for a /29,
\* one that is full
VnetEnvs ==
    { NoVnet,
      [ show |-> <<"1","0",".","0",".","0",".","0","/","2","8">>, subnets |-> << <<"1","0",".","0",".","0",".","0","/","2","9">> >> ],
      [ show |-> <<"1","0",".","0",".","0",".","0","/","2","8">>, subnets |-> << <<"1","0",".","0",".","0",".","8","/","2","9">>, <<"1","0",".","0",".","0",".","0","/","2","9">> >> ] }

\* the answers to the token command and to the capacities request
FabricEnvs ==
    { [ os_token |-> SpawnFailed, http |-> NoHttp ],
      [ os_token |-> Exit(0, << <<"t","o","k">> >>, <<>>), http |-> NoHttp ],
      [ os_token |-> Exit(0, << <<"t","o","k">> >>, <<>>), http |-> [ ok |-> TRUE, regions |-> <<>> ] ],
      [ os_token |-> Exit(0, << <<"t","o","k">> >>, <<>>),
        http |-> [ ok |-> TRUE, regions |-> << <<"W","e","s","t"," ","U","S"," ","3">> >> ] ],
      [ os_token |-> Exit(0, << <<"t","o","k">> >>, <<>>),
        http |-> [ ok |-> TRUE, regions |-> << None, <<"E","a","s","t"," ","U","S">> >> ] ],
      [ os_token |-> Exit(1, <<>>, << <<"P","l","e","a","s","e"," ","r","u","n"," ","'","a","z"," ","l","o","g","i","n","'">> >>),
        http |-> [ ok |-> TRUE, regions |-> << <<"W","e","s","t"," ","U","S"," ","3">> >> ] ] }

NoFabric == [ os_token |-> SpawnFailed, http |-> NoHttp ]

\* the environments of a call, by resource type: [vnet, fabric, os_deploy]
ToolEnvs(resource_type) ==
    IF resource_type = <<"s","u","b","n","e","t">>
    THEN { [ vnet |-> v, fabric |-> NoFabric, os_deploy |-> o.os ] :
             v \in VnetEnvs, o \in { d \in DeployOutcomes : d.os.kind = "exit" /\ d.os.stdout # <<>> } }
    ELSE IF resource_type = <<"f","a","b","r","i","c","-","c","a","p","a","c","i","t","y">>
    THEN { [ vnet |-> NoVnet, fabric |-> f,
             os_deploy |-> Exit(0, << <<"p","r","o","v","i","s","i","o","n","i","n","g","S","t","a","t","e",":"," ","S","u","c","c","e","e","d","e","d">> >>, <<>>) ] :
             f \in FabricEnvs }
    ELSE { [ vnet |-> NoVnet, fabric |-> NoFabric,
             os_deploy |-> Exit(0, << <<"p","r","o","v","i","s","i","o","n","i","n","g","S","t","a","t","e",":"," ","S","u","c","c","e","e","d","e","d">> >>, <<>>) ] }

DeployedTypes == { <<"s","u","b","n","e","t">>, <<"f","a","b","r","i","c","-","c","a","p","a","c","i","t","y">>, <<"s","t","o","r","a","g","e","-","a","c","c","o","u","n","t">>, <<"n","s","p">> }

ToolNames == { "create_resource", "deploy_bicep_resource" }

\* the calls with a resource group, a known type and a dict of parameters
RegularToolCalls ==
    { [ fn |-> f, resource_type |-> x[1], resource_group |-> <<"r","g">>,
        parameters |-> JsonOf(m \o x[2]), decls |-> d, exists |-> TRUE,
        has_deploy_script |-> TRUE, env |-> x[3] ] :
        f \in ToolNames, m \in SuppliedMaps(1), d \in Declarations,
        x \in UNION { { << t, extra, e >> : extra \in ExtraSupplied(t), e \in ToolEnvs(t) } :
                      t \in DeployedTypes } }

\* the calls that lack something: the resource group, a known type, a
\* parameter text that parses, the template file, the deployment script
IrregularToolCalls ==
    { [ fn |-> f, resource_type |-> t, resource_group |-> g, parameters |-> p,
        decls |-> << Decl(<<"n","a","m","e">>, FALSE) >>, exists |-> x, has_deploy_script |-> h,
        env |-> [ vnet |-> NoVnet, fabric |-> NoFabric,
                  os_deploy |-> Exit(0, << <<"p","r","o","v","i","s","i","o","n","i","n","g","S","t","a","t","e",":"," ","S","u","c","c","e","e","d","e","d">> >>, <<>>) ] ] :
        f \in ToolNames, t \in { <<"n","s","p">>, <<"u","n","k","n","o","w","n">>, <<>> }, g \in ResourceGroupArgs,
        p \in { NoParams, InvalidJson, JsonOf(<<>>), JsonOf(<< << <<"n","a","m","e">>, <<"n">> >> >>) },
        x \in BOOLEAN, h \in BOOLEAN }

\* deploy_bicep_resource takes a dict, never a text to parse
ToolCalls ==
    { c \in RegularToolCalls \cup IrregularToolCalls :
        c.fn = "deploy_bicep_resource" => c.parameters.kind = "dict" }

\* the calls of assign_rbac_role
ScopeArgs == { None, <<"r","g">>, <<"/","s","u","b","s","c","r","i","p","t","i","o","n","s","/","s">> }
IdListArgs == { ListArg(<<>>), ListArg(<< <<"a">> >>), ListArg(<< <<"a">>, <<"b">> >>), StrArg(<<"a">>) }
RoleListArgs == { ListArg(<<>>), ListArg(<< <<"R","e","a","d","e","r">> >>), StrArg(<<"R","e","a","d","e","r">>) }
PrincipalTypeArgs ==
    { None, <<>>, <<" ">>, <<"U","s","e","r">>, <<"G","r","o","u","p">>, <<" ","U","s","e","r"," ">>, <<"u","s","e","r">>, <<"U","s","e","r","s">>, <<"O","w","n","e","r">>,
      S_ServicePrincipal, S_ManagedIdentity, <<" ","M","a","n","a","g","e","d","I","d","e","n","t","i","t","y">>, <<"S","e","r","v","i","c","e","P","r","i","n","c","i","p","a","l"," ">>,
      <<"s","e","r","v","i","c","e","p","r","i","n","c","i","p","a","l">> }

\* the answers of the operating system to the role-assignment command
RbacOutcomes ==
    { Exit(0, << <<"A","s","s","i","g","n","e","d"," ","R","e","a","d","e","r"," ","t","o"," ","a">> >>, <<>>),
      Exit(1, <<>>, << <<"A","u","t","h","o","r","i","z","a","t","i","o","n","F","a","i","l","e","d">> >>),
      TimedOut, SpawnFailed }

RbacCalls ==
    { [ fn |-> "assign_rbac_role", scope |-> s, object_ids |-> i, role_names |-> r,
        principal_type |-> p, env |-> e ] :
        s \in ScopeArgs, i \in IdListArgs, r \in RoleListArgs, p \in PrincipalTypeArgs,
        e \in { [ has_pwsh |-> TRUE, has_script |-> FALSE, os |-> SpawnFailed ] }
               \cup { [ has_pwsh |-> TRUE, has_script |-> TRUE, os |-> o ] :
                        o \in RbacOutcomes } }

\* the lines check-resource.ps1 can print: the markers check_resource looks
\* for, list entries with and without id, with a repeated name, and a line
\* that carries no marker
OutputLines ==
    { <<"R","E","S","O","U","R","C","E"," ","N","O","T"," ","F","O","U","N","D">>, <<"R","E","S","O","U","R","C","E"," ","F","O","U","N","D",":"," ","a">>, <<"R","E","S","O","U","R","C","E"," ","I","D",":"," ","/","w","s","/","a">>,
      <<"M","U","L","T","I","P","L","E"," ","R","E","S","O","U","R","C","E","S"," ","F","O","U","N","D">>, <<"C","O","U","N","T",":"," ","2">>, <<"C","O","U","N","T",":"," ","0">>,
      <<" "," ","-"," ","N","a","m","e",":"," ","a",","," ","I","D",":"," ","/","w","s","/","a">>, <<" "," ","-"," ","N","a","m","e",":"," ","b",","," ","I","D",":"," ","/","w","s","/","b">>, <<" "," ","-"," ","N","a","m","e",":"," ","a",","," ","I","D",":"," ","/","w","s","/","a","2">>,
      <<" "," ","-"," ","N","a","m","e",":"," ","c">>, <<"C","h","e","c","k","i","n","g",".",".",".">> }

\* the output texts of at most n lines
RECURSIVE OutputTexts(_)
OutputTexts(n) ==
    IF n = 0 THEN { <<>> }
    ELSE LET shorter == OutputTexts(n - 1)
         IN  shorter \cup { Append(t, l) : t \in shorter, l \in OutputLines }

\* the calls of check_resource: with any output text of the script, and
\* those that lack the resource group, a known type or the script
CheckCalls ==
    { [ fn |-> "check_resource", resource_group |-> <<"r","g">>, resource_type |-> S_nsp,
        env |-> [ has_pwsh |-> TRUE, has_script |-> TRUE, os |-> Exit(0, t, <<>>) ] ] :
        t \in OutputTexts(MaxLines) }
    \cup { [ fn |-> "check_resource", resource_group |-> g, resource_type |-> t,
             env |-> [ has_pwsh |-> TRUE, has_script |-> h, os |-> o ] ] :
             g \in ResourceGroupArgs,
             t \in { S_nsp, <<" ","N","e","t","w","o","r","k"," ","S","e","c","u","r","i","t","y"," ","P","e","r","i","m","e","t","e","r">>, <<"u","n","k","n","o","w","n">>, <<>> },
             h \in BOOLEAN,
             o \in { Exit(0, << <<"R","E","S","O","U","R","C","E"," ","F","O","U","N","D",":"," ","a">> >>, <<>>),
                     Exit(1, <<>>, << <<"R","e","s","o","u","r","c","e","G","r","o","u","p","N","o","t","F","o","u","n","d">> >>), TimedOut, SpawnFailed } }

\* the environment of deploy_bicep for a call
ToolEnv(c) ==
    [ DeployEnv(TRUE, [ exists |-> c.exists, lines |-> TemplateLines(c.decls) ],
                c.has_deploy_script, c.env.os_deploy)
      EXCEPT !.vnet = c.env.vnet, !.os_token = c.env.fabric.os_token,
             !.http = c.env.fabric.http ]

InitTools ==
    /\ Fresh
    /\ cloud = <<>>
    /\ \/ call \in ToolCalls
       \/ call \in RbacCalls
       \/ call \in CheckCalls
    /\ ret = NoRet

\* azure_create_resource returns
CallCreate ==
    /\ call.fn = "create_resource"
    /\ ret = NoRet
    /\ ret' = create_resource(call.resource_type, call.resource_group, call.parameters,
                              ToolEnv(call))
    /\ UNCHANGED << pc, run, tool, args, nsp_name, workspace_id, workspace_name, check_data,
                    output, result, calls, attach_os, check_failed, create_ok, nominal, cloud, prev, call >>

\* azure_deploy_bicep_resource returns
CallDeployResource ==
    /\ call.fn = "deploy_bicep_resource"
    /\ ret = NoRet
    /\ ret' = deploy_bicep_resource(call.resource_group, call.resource_type,
                                    call.parameters.dict, ToolEnv(call))
    /\ UNCHANGED << pc, run, tool, args, nsp_name, workspace_id, workspace_name, check_data,
                    output, result, calls, attach_os, check_failed, create_ok, nominal, cloud, prev, call >>

\* azure_assign_rbac_role returns
CallRbac ==
    /\ call.fn = "assign_rbac_role"
    /\ ret = NoRet
    /\ ret' = assign_rbac_role(call.scope, call.object_ids, call.role_names,
                               call.principal_type, call.env)
    /\ UNCHANGED << pc, run, tool, args, nsp_name, workspace_id, workspace_name, check_data,
                    output, result, calls, attach_os, check_failed, create_ok, nominal, cloud, prev, call >>

\* azure_check_resource returns
CallCheck ==
    /\ call.fn = "check_resource"
    /\ ret = NoRet
    /\ ret' = check_resource(call.resource_group, call.resource_type, call.env)
    /\ UNCHANGED << pc, run, tool, args, nsp_name, workspace_id, workspace_name, check_data,
                    output, result, calls, attach_os, check_failed, create_ok, nominal, cloud, prev, call >>

NextTools == CallCreate \/ CallDeployResource \/ CallRbac \/ CallCheck

SpecTools == InitTools /\ [][NextTools]_vars

\* ------------------------------------------------------------------------
\* Calls of calculate_next_subnet_address
\* ------------------------------------------------------------------------
\* the subnets a virtual network at 10.0.0.0 can hold: the addressPrefix and
\* the half-open interval of offsets from the base address it covers
SubnetPool ==
    { << <<"1","0",".","0",".","0",".","0","/","2","9">>, 0, 8 >>, << <<"1","0",".","0",".","0",".","8","/","2","9">>, 8, 16 >>, << <<"1","0",".","0",".","0",".","0","/","2","8">>, 0, 16 >>,
      << <<"1","0",".","0",".","0",".","4","/","3","0">>, 4, 8 >>, << <<"1","0",".","0",".","0",".","1","2","/","3","0">>, 12, 16 >>, << <<"1","0",".","0",".","0",".","1","6","/","2","9">>, 16, 24 >>,
      << <<"1","0",".","0",".","0",".","2","4","/","2","9">>, 24, 32 >>, << <<"1","0",".","0",".","0",".","0","/","2","7">>, 0, 32 >> }

\* the listings of at most n subnets, in any order, repetitions included
RECURSIVE SubnetLists(_)
SubnetLists(n) ==
    IF n = 0 THEN { <<>> }
    ELSE LET shorter == SubnetLists(n - 1)
         IN  shorter \cup { Append(l, x) : l \in shorter, x \in SubnetPool }

\* a small network with any listing, and the network 10.0.0.0/16 with at
\* most one subnet
SubnetCalls ==
    { [ fn |-> "calculate_next_subnet_address", show |-> <<"1","0",".","0",".","0",".","0","/","2","7">>, vnet_size |-> 32,
        listed |-> l, subnet_size |-> z ] :
        l \in SubnetLists(MaxSubnets), z \in { 27, 28, 29, 30 } }
    \cup { [ fn |-> "calculate_next_subnet_address", show |-> <<"1","0",".","0",".","0",".","0","/","1","6">>,
             vnet_size |-> 65536, listed |-> l, subnet_size |-> z ] :
             l \in SubnetLists(1), z \in { 27, 29 } }

InitSubnet ==
    /\ Fresh
    /\ cloud = <<>>
    /\ call \in SubnetCalls
    /\ ret = NoRet

\* calculate_next_subnet_address returns
CallSubnet ==
    /\ call.fn = "calculate_next_subnet_address"
    /\ ret = NoRet
    /\ ret' = [ fn |-> "calculate_next_subnet_address",
                address |-> calculate_next_subnet_address(
                                [ show |-> call.show,
                                  subnets |-> [ i \in DOMAIN call.listed |-> call.listed[i][1] ] ],
                                call.subnet_size) ]
    /\ UNCHANGED << pc, run, tool, args, nsp_name, workspace_id, workspace_name, check_data,
                    output, result, calls, attach_os, check_failed, create_ok, nominal, cloud, prev, call >>

NextSubnet == CallSubnet

SpecSubnet == InitSubnet /\ [][NextSubnet]_vars

\* The agent as a whole: either the compliance tools are invoked, step by
\* step, or one of the other tools is called and returns.
\* the environment of a type in which every lookup and the deployment
\* script answer regularly
RegularEnv(resource_type) ==
    [ vnet |-> IF resource_type = <<"s","u","b","n","e","t">>
               THEN [ show |-> <<"1","0",".","0",".","0",".","0","/","2","8">>, subnets |-> << <<"1","0",".","0",".","0",".","0","/","2","9">> >> ]
               ELSE NoVnet,
      fabric |-> IF resource_type = <<"f","a","b","r","i","c","-","c","a","p","a","c","i","t","y">>
                 THEN [ os_token |-> Exit(0, << <<"t","o","k">> >>, <<>>),
                        http |-> [ ok |-> TRUE, regions |-> << <<"W","e","s","t"," ","U","S"," ","3">> >> ] ]
                 ELSE NoFabric,
      os_deploy |-> Exit(0, << <<"p","r","o","v","i","s","i","o","n","i","n","g","S","t","a","t","e",":"," ","S","u","c","c","e","e","d","e","d">> >>, <<>>) ]

\* the calls of create_resource and deploy_bicep_resource in that environment
AgentCalls == { c \in ToolCalls : c.env = RegularEnv(c.resource_type) }

InitCalls ==
    /\ Fresh
    /\ cloud = <<>>
    /\ \/ call \in AgentCalls
       \/ call \in RbacCalls
       \/ call \in CheckCalls
    /\ ret = NoRet

InitAgent == Init \/ InitCalls

WorkflowStep == call = NoCall /\ Next

NextAgent == WorkflowStep \/ NextTools

SpecAgent == InitAgent /\ [][NextAgent]_vars

\* ------------------------------------------------------------------------
\* Properties of the compliance workflows
\* ------------------------------------------------------------------------
IsNsp == tool = "attach_to_nsp"

\* the lookup of the running invocation parsed to a count above zero
LookupFound == check_data.has_count /\ check_data.count > 0

\* the lookup of the running invocation failed: bad argument, script
\* missing, or output of none of the three shapes
LookupFailed == check_data.ret \in { "invalid_rg", "invalid_type", "no_script", "unparsed" }

CreateTaken == pc = "create" \/ CreateEvents # <<>>

ReportsSucceeded == Contains(result.text, S_WorkflowCompleted)
ReportsFailed == ContainsAny(result.text, << <<"E","r","r","o","r">>, <<"F","a","i","l","e","d"," ","t","o">> >>)

\* the name parameter of a create step
CreatedName(event) == event.arg[1][2]

\* C1: the create step is never invoked in an invocation whose lookup
\* reported a count greater than zero.
C1_NoCreateWhenFound == LookupFound => ~CreateTaken

C1_Witness == LookupFound /\ pc = "done" /\ AttachEvents # <<>> /\ ~CreateTaken

\* C2: a workflow enters its create step exactly when the lookup succeeded
\* with zero matches; after a failed lookup it ends failed without a create.
C2_CreateIffZeroMatches ==
    /\ CreateTaken => (check_data.ret = "not_found" /\ check_data.count = 0)
    /\ LookupFailed => (~CreateTaken /\ (pc = "done" => ~Succeeded))

\* C3: a workflow reports success only when the attach command ran and
\* exited with code 0; a non-zero exit, a timeout or a failed spawn of the
\* attach command ends the workflow failed.
C3_SucceededOnlyAfterAttach ==
    Succeeded => (AttachEvents # <<>> /\ attach_os.kind = "exit" /\ attach_os.rc = 0)

\* C4: when the create step did not deploy the prerequisite the workflow
\* ends failed with the create output in its text and runs no attach.
C4_CreateFailureStops ==
    create_ok = "failed"
        => /\ pc \notin { "recheck", "attach" }
           /\ AttachEvents = <<>>
           /\ pc = "done" => (result.status = "returned"
                              /\ Contains(result.text, <<"F","a","i","l","e","d"," ","t","o"," ","c","r","e","a","t","e">>))

\* C5: every invocation ends by returning a text that reports exactly one
\* of success and failure.
C5_OneTerminalState ==
    pc = "done" => (result.status = "returned" /\ (ReportsSucceeded # ReportsFailed))

\* C6: an attach command is started only with a known prerequisite
\* identifier, and after a creation only after a new lookup.
C6_AttachTargetKnown ==
    \A i \in DOMAIN calls :
        calls[i].op = "attach"
            => /\ ~Falsy(calls[i].arg)
               /\ \A j \in 1..(i - 1) :
                     calls[j].op = "create_resource"
                         => \E k \in (j + 1)..(i - 1) : calls[k].op = "check"

\* the match the caller named if there is one, else the first
MatchIndex(resources, wanted, field) ==
    LET matching == { i \in DOMAIN resources : resources[i][field] = wanted }
    IN  IF ~Falsy(wanted) /\ matching # {} THEN Min(matching) ELSE 1

\* the lookup found prerequisites and nothing was created
AttachesExisting == check_data.resources # <<>> /\ ~CreateTaken /\ AttachEvents # <<>>

C8_Idempotent ==
    (run = 1 /\ prev.succeeded /\ nominal)
        => /\ ~CreateTaken
           /\ \A i \in DOMAIN AttachEvents : AttachEvents[i].arg = prev.target
           /\ pc = "done" => Len(AttachEvents) = 1

\* C9 as stated: whatever the caller passed, a created prerequisite is
\* named <resource_group>-nsp or <resource_group>-law.
C9_Stated ==
    \A i \in DOMAIN CreateEvents :
        CreatedName(CreateEvents[i]) =
            args.resource_group \o (IF IsNsp THEN <<"-","n","s","p">> ELSE <<"-","l","a","w">>)

\* C9: attach_to_nsp creates the perimeter under the nsp_name the caller
\* gave and under <resource_group>-nsp when the caller gave none;
\* attach_diagnostic_settings always creates <resource_group>-law.
C9_CreatedName ==
    \A i \in DOMAIN CreateEvents :
        CreatedName(CreateEvents[i]) =
            IF IsNsp
            THEN (IF Falsy(args.name) THEN args.resource_group \o <<"-","n","s","p">> ELSE args.name)
            ELSE args.resource_group \o <<"-","l","a","w">>

C9_Witness ==
    /\ IsNsp
    /\ CreateEvents # <<>>
    /\ Falsy(args.name)
    /\ create_ok = "deployed"
    /\ CreatedName(CreateEvents[1]) = <<"r","g","-","n","s","p">>

\* ------------------------------------------------------------------------
\* Properties of validate_bicep_parameters
\* ------------------------------------------------------------------------
Validated ==
    /\ ret # NoRet
    /\ call.exists
    /\ call.resource_type \in ToSet(Keys(TEMPLATE_MAP))

\* the parameters a type never has to be given
AutoCalculatedOf(resource_type) ==
    IF resource_type = <<"s","u","b","n","e","t">> THEN { <<"s","u","b","n","e","t","S","t","a","r","t","i","n","g","A","d","d","r","e","s","s">> }
    ELSE IF resource_type = <<"f","a","b","r","i","c","-","c","a","p","a","c","i","t","y">> THEN { <<"l","o","c","a","t","i","o","n">> }
    ELSE {}

HasValue(provided, name) ==
    \E i \in DOMAIN provided :
        provided[i][1] = name /\ provided[i][2] # None /\ provided[i][2] # <<>>

\* the declared parameters without default, not auto-calculated, that the
\* supplied map gives no value, in the order of their declaration
RECURSIVE ExpectedMissing(_, _, _)
ExpectedMissing(decls, resource_type, provided) ==
    IF decls = <<>> THEN <<>>
    ELSE (IF /\ ~Head(decls).has_default
             /\ Head(decls).name \notin AutoCalculatedOf(resource_type)
             /\ ~HasValue(provided, Head(decls).name)
          THEN << Head(decls).name >> ELSE <<>>)
         \o ExpectedMissing(Tail(decls), resource_type, provided)

\* C10: for every type of the template table whose template file is
\* there and every supplied map, validate_bicep_parameters returns ok
\* exactly when every parameter declared without a default, the
\* auto-calculated ones of the type aside, has a non-null non-empty value;
\* otherwise its message lists exactly the missing names.
C10_ValidateRequired ==
    Validated
        => LET missing == ExpectedMissing(call.decls, call.resource_type, call.provided)
           IN  /\ ret.ok <=> missing = <<>>
               /\ ~ret.ok => ret.msg = <<"M","i","s","s","i","n","g"," ","r","e","q","u","i","r","e","d"," ","p","a","r","a","m","e","t","e","r","s",":"," ">> \o Join(missing, <<","," ">>)

C10_Witness ==
    /\ Validated
    /\ call.resource_type = <<"s","u","b","n","e","t">>
    /\ call.decls = << Decl(<<"n","a","m","e">>, FALSE), Decl(<<"s","u","b","n","e","t","S","t","a","r","t","i","n","g","A","d","d","r","e","s","s">>, FALSE) >>
    /\ call.provided = << << <<"n","a","m","e">>, <<>> >> >>
    /\ ~ret.ok
    /\ ret.msg = <<"M","i","s","s","i","n","g"," ","r","e","q","u","i","r","e","d"," ","p","a","r","a","m","e","t","e","r","s",":"," ","n","a","m","e">>

\* ------------------------------------------------------------------------
\* Properties of create_resource and deploy_bicep_resource
\* ------------------------------------------------------------------------
\* one of the two tools was called and has returned
ToolReturned == call.fn \in ToolNames /\ ret # NoRet

\* the parameter sets the call handed to the deployment script
Forwarded ==
    IF ToolReturned /\ ~ret.raised
    THEN [ i \in 1..Len(Filter(ret.calls, { j \in DOMAIN ret.calls : ret.calls[j].op = "deploy" }))
             |-> Filter(ret.calls, { j \in DOMAIN ret.calls : ret.calls[j].op = "deploy" })[i].arg ]
    ELSE <<>>

\* C11: the deployment script is never invoked with a parameter set in
\* which a parameter the template declares without a default is absent or
\* empty, on every path through create_resource and deploy_bicep_resource.
C11_RequiredForwarded ==
    \A i \in DOMAIN Forwarded :
        \A j \in DOMAIN call.decls :
            ~call.decls[j].has_default => HasValue(Forwarded[i], call.decls[j].name)

\* ------------------------------------------------------------------------
\* Properties of assign_rbac_role
\* ------------------------------------------------------------------------
RbacReturned == call.fn = "assign_rbac_role" /\ ret # NoRet

\* the trimmed principal type is one of the two allowed values
AllowedPrincipal ==
    /\ call.principal_type # None
    /\ Strip(call.principal_type) \in { <<"S","e","r","v","i","c","e","P","r","i","n","c","i","p","a","l">>, <<"M","a","n","a","g","e","d","I","d","e","n","t","i","t","y">> }

\* C13: assign_rbac_role starts the role-assignment script only when the
\* trimmed principal_type is 'ServicePrincipal' or 'ManagedIdentity'; with
\* any other value the call returns a message and has started nothing,
\* whatever the other arguments are.
C13_OnlyAllowedPrincipals ==
    RbacReturned =>
        /\ ret.calls # <<>> => AllowedPrincipal
        /\ ~AllowedPrincipal => ~ret.raised /\ ret.text # <<>> /\ ret.calls = <<>>
        /\ (/\ call.principal_type # None
            /\ Strip(call.principal_type) \in { <<"U","s","e","r">>, <<"G","r","o","u","p">> }
            /\ ~Falsy(call.scope) /\ ~Empty(call.object_ids) /\ ~Empty(call.role_names))
           => ret.text[1] = <<"R","B","A","C"," ","R","o","l","e"," ","A","s","s","i","g","n","m","e","n","t"," ","B","l","o","c","k","e","d">>

\* the script was started for a principal type that needed trimming
C13_Witness ==
    /\ RbacReturned
    /\ ret.calls # <<>>
    /\ call.principal_type # Strip(call.principal_type)

\* ------------------------------------------------------------------------
\* Validation before any external command
\* ------------------------------------------------------------------------
\* the texts by which create_resource, deploy_bicep_resource and
\* assign_rbac_role report an argument they do not accept
ValidationHeads ==
    { <<"I","n","v","a","l","i","d"," ","r","e","s","o","u","r","c","e"," ","t","y","p","e",".">>, <<"E","r","r","o","r",":"," ","I","n","v","a","l","i","d"," ","J","S","O","N"," ","i","n"," ","p","a","r","a","m","e","t","e","r","s">>, <<"S","T","O","P",":"," ">>,
      <<"U","n","k","n","o","w","n"," ","r","e","s","o","u","r","c","e","_","t","y","p","e">>, <<"M","i","s","s","i","n","g"," ","r","e","q","u","i","r","e","d"," ","p","a","r","a","m","e","t","e","r","s",":">>,
      <<"R","B","A","C"," ","R","o","l","e"," ","A","s","s","i","g","n","m","e","n","t"," ","B","l","o","c","k","e","d">>, <<"I","n","v","a","l","i","d"," ","p","r","i","n","c","i","p","a","l","_","t","y","p","e",":">>, <<"I","n","v","a","l","i","d"," ","s","c","o","p","e"," ","f","o","r","m","a","t",".">> }

ValidationText(text) ==
    /\ text # <<>>
    /\ \/ \E h \in ValidationHeads : StartsWith(text[1], h)
       \/ Len(text) >= 3 /\ StartsWith(text[3], <<"P","l","e","a","s","e"," ","p","r","o","v","i","d","e">>)

\* a call of a tool that returned a validation error
RejectedCall ==
    /\ call.fn \in { "create_resource", "deploy_bicep_resource", "assign_rbac_role" }
    /\ ret # NoRet
    /\ ~ret.raised
    /\ ValidationText(ret.text)

RejectedCheck ==
    /\ call.fn = "check_resource"
    /\ ret # NoRet
    /\ ret.ret \in { "invalid_rg", "invalid_type" }

RejectedWorkflow ==
    /\ pc = "done"
    /\ result.status = "returned"
    /\ result.text \in { << <<"E","r","r","o","r",":"," ","R","e","s","o","u","r","c","e"," ","g","r","o","u","p"," ","n","a","m","e"," ","i","s"," ","r","e","q","u","i","r","e","d">> >>,
                         << <<"E","r","r","o","r",":"," ","R","e","s","o","u","r","c","e"," ","I","D"," ","i","s"," ","r","e","q","u","i","r","e","d">> >> }

\* C12: when create_resource, deploy_bicep_resource, check_resource,
\* attach_to_nsp, attach_diagnostic_settings or assign_rbac_role returns a
\* validation error, no subprocess and no network lookup was started in
\* that call.
C12_ValidationBeforeCommands ==
    /\ RejectedCall => ret.calls = <<>>
    /\ RejectedCheck => ret.command = <<>>
    /\ RejectedWorkflow => calls = <<>>

\* a fabric capacity was asked for without its required parameters: the
\* prompt is returned and the tenant region was not looked up
C12_Witness ==
    /\ RejectedCall
    /\ call.fn = "create_resource"
    /\ call.resource_type = <<"f","a","b","r","i","c","-","c","a","p","a","c","i","t","y">>
    /\ call.env.fabric # NoFabric
    /\ ret.calls = <<>>

\* ------------------------------------------------------------------------
\* Properties of check_resource
\* ------------------------------------------------------------------------
\* check_resource returned after it ran the script
CheckReturned == call.fn = "check_resource" /\ ret # NoRet /\ ret.command # <<>>

\* the text the script printed
Printed == call.env.os.stdout

NotFoundShape == ret.count = 0 /\ ret.resources = <<>>
SingleShape == Len(ret.resources) = 1
MultipleShape == Len(ret.resources) > 1

\* C14: for any output text of the check script the result of check_resource
\* has exactly one of the shapes not-found (count 0, no resources), single
\* (one resource) and multiple (more than one resource).
C14_ExactlyOneShape ==
    CheckReturned =>
        /\ NotFoundShape \/ SingleShape \/ MultipleShape
        /\ ~(NotFoundShape /\ SingleShape)
        /\ ~(NotFoundShape /\ MultipleShape)
        /\ ~(SingleShape /\ MultipleShape)

\* the list entries the script can print: the line, its name, its id
ListEntries ==
    { << <<" "," ","-"," ","N","a","m","e",":"," ","a",","," ","I","D",":"," ","/","w","s","/","a">>, <<"a">>, <<"/","w","s","/","a">> >>,
      << <<" "," ","-"," ","N","a","m","e",":"," ","b",","," ","I","D",":"," ","/","w","s","/","b">>, <<"b">>, <<"/","w","s","/","b">> >>,
      << <<" "," ","-"," ","N","a","m","e",":"," ","a",","," ","I","D",":"," ","/","w","s","/","a","2">>, <<"a">>, <<"/","w","s","/","a","2">> >>,
      << <<" "," ","-"," ","N","a","m","e",":"," ","c">>, <<"c">>, None >> }

\* one match per distinct name of the list entries among lines, in the order
\* of first occurrence, with the id of the line that named it first
RECURSIVE FirstListed(_, _)
FirstListed(lines, acc) ==
    IF lines = <<>> THEN acc
    ELSE IF \E x \in ListEntries :
              x[1] = Head(lines) /\ \A i \in DOMAIN acc : acc[i].name # x[2]
    THEN FirstListed(Tail(lines),
                     Append(acc, [ name |-> (CHOOSE x \in ListEntries : x[1] = Head(lines))[2],
                                   id |-> (CHOOSE x \in ListEntries : x[1] = Head(lines))[3] ]))
    ELSE FirstListed(Tail(lines), acc)

\* the output announces several resources and carries no single-found marker
ListOnly ==
    /\ ret.ret = "multiple"
    /\ ~Contains(Printed, <<"R","E","S","O","U","R","C","E"," ","F","O","U","N","D",":">>)
    /\ ~Contains(Printed, <<"R","E","S","O","U","R","C","E"," ","I","D",":">>)

\* C15: in the multiple-found shape check_resource returns one match per
\* distinct name, in the order of first occurrence in the output, and the id
\* of each match is the id printed on the line of its name (no id when that
\* line carries none).
C15_MatchesFollowOutput ==
    (CheckReturned /\ ListOnly) => ret.resources = FirstListed(Printed, <<>>)

\* C16: in every result of check_resource the count is the number of entries
\* of resources, and requires_selection is set exactly when there is more
\* than one match.
C16_CountIsLength ==
    (CheckReturned /\ ret.has_count) =>
        /\ ret.count = Len(ret.resources)
        /\ ret.requires_selection <=> Len(ret.resources) > 1

\* ------------------------------------------------------------------------
\* Properties of calculate_next_subnet_address
\* ------------------------------------------------------------------------
SubnetReturned == call.fn = "calculate_next_subnet_address" /\ ret # NoRet

\* number of addresses of a block with the requested prefix length
BlockSize == CASE call.subnet_size = 27 -> 32 [] call.subnet_size = 28 -> 16
               [] call.subnet_size = 29 -> 8 [] call.subnet_size = 30 -> 4

\* the offsets from the base address at which a block of the requested size
\* lies within the network and overlaps no listed subnet
FreeStarts ==
    { s \in 0..(call.vnet_size - BlockSize) :
        \A i \in DOMAIN call.listed :
            s + BlockSize <= call.listed[i][2] \/ s >= call.listed[i][3] }

\* C17: calculate_next_subnet_address returns the lowest start address, at or
\* above the base address of the virtual network, at which a block of the
\* requested size lies within the network and overlaps no existing subnet,
\* for the subnets listed in any order, overlapping and nested ones included.
C17_LowestFreeStart ==
    (SubnetReturned /\ FreeStarts # {}) =>
        ret.address = <<"1","0",".","0",".","0",".">> \o IntToStr(Min(FreeStarts))

\* the example: 10.0.0.0/16 with the subnet 10.0.0.0/27 and a requested /27
C17_Witness ==
    /\ SubnetReturned
    /\ call.show = <<"1","0",".","0",".","0",".","0","/","1","6">>
    /\ call.listed = << << <<"1","0",".","0",".","0",".","0","/","2","7">>, 0, 32 >> >>
    /\ call.subnet_size = 27
    /\ ret.address = <<"1","0",".","0",".","0",".","3","2">>

\* an unsorted listing with a nested subnet leaves a gap that is returned
C17_WitnessUnsorted ==
    /\ SubnetReturned
    /\ call.listed = << << <<"1","0",".","0",".","0",".","1","6","/","2","9">>, 16, 24 >>, << <<"1","0",".","0",".","0",".","0","/","2","8">>, 0, 16 >>,
                        << <<"1","0",".","0",".","0",".","4","/","3","0">>, 4, 8 >> >>
    /\ call.subnet_size = 29
    /\ ret.address = <<"1","0",".","0",".","0",".","2","4">>

\* ------------------------------------------------------------------------
\* Properties of the derived deployment parameters
\* ------------------------------------------------------------------------
\* the parameters of the call, as the dict the tool works on
Supplied == call.parameters.dict

\* a subnet is asked for in a named virtual network, without an address
AddressWanted ==
    /\ call.resource_type = <<"s","u","b","n","e","t">>
    /\ HasKey(Supplied, <<"v","n","e","t","N","a","m","e">>)
    /\ Get(Supplied, <<"v","n","e","t","N","a","m","e">>) = <<"v">>
    /\ ~HasKey(Supplied, <<"s","u","b","n","e","t","S","t","a","r","t","i","n","g","A","d","d","r","e","s","s">>)

\* the virtual network cannot be read, or its two halves are both taken and
\* a half is asked for
UnreadableOrFull ==
    \/ call.env.vnet.show = <<>>
    \/ /\ call.env.vnet.show = <<"1","0",".","0",".","0",".","0","/","2","8">>
       /\ ToSet(call.env.vnet.subnets) = { <<"1","0",".","0",".","0",".","0","/","2","9">>, <<"1","0",".","0",".","0",".","8","/","2","9">> }
       /\ Get(Supplied, <<"s","u","b","n","e","t","S","i","z","e">>) = <<"2","9">>

LookedAtNetwork == \E i \in DOMAIN ret.calls : ret.calls[i].op = "vnet_show"

LookupAnswered ==
    /\ call.env.fabric.os_token = Exit(0, << <<"t","o","k">> >>, <<>>)
    /\ call.env.fabric.http.ok

\* the location a fabric capacity is deployed to in the environment of the call
ExpectedLocation ==
    IF LookupAnswered /\ call.env.fabric.http.regions = << <<"W","e","s","t"," ","U","S"," ","3">> >>
    THEN <<"w","e","s","t","u","s","3">> ELSE <<"w","e","s","t","c","e","n","t","r","a","l","u","s">>

\* C19: the location forwarded for a fabric capacity is the normalized
\* region of the tenant when the lookup returns one and 'westcentralus'
\* when it fails or returns nothing, whatever location the caller supplied.
C19_FabricLocationDetected ==
    (ToolReturned /\ call.resource_type = <<"f","a","b","r","i","c","-","c","a","p","a","c","i","t","y">>) =>
        \A i \in DOMAIN Forwarded : Get(Forwarded[i], <<"l","o","c","a","t","i","o","n">>) = ExpectedLocation

\* the caller supplied a location and the detected region was forwarded
C19_Witness ==
    /\ ToolReturned
    /\ call.resource_type = <<"f","a","b","r","i","c","-","c","a","p","a","c","i","t","y">>
    /\ HasKey(Supplied, <<"l","o","c","a","t","i","o","n">>)
    /\ Get(Supplied, <<"l","o","c","a","t","i","o","n">>) = <<"v">>
    /\ Forwarded # <<>>
    /\ Get(Forwarded[1], <<"l","o","c","a","t","i","o","n">>) = <<"w","e","s","t","u","s","3">>

\* the lookup failed and the fallback was forwarded in place of the caller's
\* location
C19_WitnessFallback ==
    /\ ToolReturned
    /\ call.resource_type = <<"f","a","b","r","i","c","-","c","a","p","a","c","i","t","y">>
    /\ ~LookupAnswered
    /\ HasKey(Supplied, <<"l","o","c","a","t","i","o","n">>)
    /\ Get(Supplied, <<"l","o","c","a","t","i","o","n">>) = <<"v">>
    /\ Forwarded # <<>>
    /\ Get(Forwarded[1], <<"l","o","c","a","t","i","o","n">>) = <<"w","e","s","t","c","e","n","t","r","a","l","u","s">>

\* the spelling under which a tier is forwarded
CanonicalTier(tier) ==
    IF Lower(tier) = <<"h","o","t">> THEN <<"H","o","t">> ELSE IF Lower(tier) = <<"c","o","o","l">> THEN <<"C","o","o","l">> ELSE tier

TierSupplied ==
    /\ ToolReturned
    /\ call.resource_type = <<"s","t","o","r","a","g","e","-","a","c","c","o","u","n","t">>
    /\ HasKey(Supplied, <<"a","c","c","e","s","s","T","i","e","r">>)

\* C20: the access tier of a storage account is forwarded in one spelling
\* for all case variants of the same tier ('hot', 'HOT', 'Hot' all as 'Hot'),
\* and normalizing the forwarded value again leaves it unchanged.
C20_TierNormalized ==
    TierSupplied =>
        \A i \in DOMAIN Forwarded :
            /\ Get(Forwarded[i], <<"a","c","c","e","s","s","T","i","e","r">>) = CanonicalTier(Get(Supplied, <<"a","c","c","e","s","s","T","i","e","r">>))
            /\ NormalizeAccessTier(Get(Forwarded[i], <<"a","c","c","e","s","s","T","i","e","r">>))
                   = Get(Forwarded[i], <<"a","c","c","e","s","s","T","i","e","r">>)

\* 'HOT' was supplied and 'Hot' was forwarded
C20_Witness ==
    /\ TierSupplied
    /\ Get(Supplied, <<"a","c","c","e","s","s","T","i","e","r">>) = <<"H","O","T">>
    /\ Forwarded # <<>>
    /\ Get(Forwarded[1], <<"a","c","c","e","s","s","T","i","e","r">>) = <<"H","o","t">>

\* ------------------------------------------------------------------------
\* Calls of deploy_bicep (agent/utils.py)
\* ------------------------------------------------------------------------
\* the resource types of the calls: types of both mandatory sets, of one, of
\* none, the types with a branch of their own, and a type without template
DirectTypes ==
    { <<"k","e","y","-","v","a","u","l","t">>, <<"s","t","o","r","a","g","e","-","a","c","c","o","u","n","t">>, <<"c","o","s","m","o","s","-","d","b">>, <<"l","o","g","i","c","-","a","p","p">>, <<"f","u","n","c","t","i","o","n","-","a","p","p">>,
      <<"n","s","p">>, <<"f","a","b","r","i","c","-","c","a","p","a","c","i","t","y">>, <<"u","n","k","n","o","w","n">> }

\* the parameters of a call, by resource type
DirectParams(resource_type) ==
    IF resource_type = <<"s","t","o","r","a","g","e","-","a","c","c","o","u","n","t">>
    THEN { <<>>, << << <<"s","t","o","r","a","g","e","A","c","c","o","u","n","t","N","a","m","e">>, <<"s">> >> >>,
           << << <<"s","t","o","r","a","g","e","A","c","c","o","u","n","t","N","a","m","e">>, <<"s">> >>, << <<"e","n","a","b","l","e","H","i","e","r","a","r","c","h","i","c","a","l","N","a","m","e","s","p","a","c","e">>, None >> >> }
    ELSE IF resource_type = <<"k","e","y","-","v","a","u","l","t">>
    THEN { <<>>, << << <<"k","e","y","V","a","u","l","t","N","a","m","e">>, <<"k">> >> >> }
    ELSE IF resource_type = <<"l","o","g","i","c","-","a","p","p">>
    THEN { << << <<"l","o","g","i","c","A","p","p","N","a","m","e">>, <<"l">> >> >>,
           << << <<"l","o","g","i","c","A","p","p","N","a","m","e">>, <<"l">> >>, << <<"l","o","g","i","c","A","p","p","T","y","p","e">>, <<"s","t","a","n","d","a","r","d">> >> >> }
    ELSE IF resource_type = <<"f","u","n","c","t","i","o","n","-","a","p","p">>
    THEN { << << <<"f","u","n","c","t","i","o","n","A","p","p","N","a","m","e">>, <<"f">> >> >> }
    ELSE IF resource_type = <<"f","a","b","r","i","c","-","c","a","p","a","c","i","t","y">>
    THEN { <<>>, << << <<"l","o","c","a","t","i","o","n">>, <<"v">> >> >>, << << <<"l","o","c","a","t","i","o","n">>, <<>> >> >> }
    ELSE { <<>>, << << <<"n","a","m","e">>, <<"n">> >> >> }

\* the answers to the deployment command: those of DeployOutcomes, an output
\* that names both states, and one that reports success on stderr
DirectOutcomes ==
    { d.os : d \in DeployOutcomes }
    \cup { Exit(0, << <<"p","r","o","v","i","s","i","o","n","i","n","g","S","t","a","t","e",":"," ","S","u","c","c","e","e","d","e","d">>, <<"n","e","s","t","e","d"," ","d","e","p","l","o","y","m","e","n","t",":"," ","F","a","i","l","e","d">> >>, <<>>),
           Exit(0, <<>>, << <<"p","r","o","v","i","s","i","o","n","i","n","g","S","t","a","t","e",":"," ","S","u","c","c","e","e","d","e","d">> >>) }

\* what surrounds the deployment command, by resource type: [fabric,
\* has_post_script, principal, os_post]
DirectSettings(resource_type) ==
    IF resource_type = <<"f","u","n","c","t","i","o","n","-","a","p","p">>
    THEN { [ fabric |-> NoFabric, has_post_script |-> h, principal |-> p, os_post |-> o ] :
             h \in BOOLEAN, p \in { "none", "raise", "id" },
             o \in { Exit(0, << <<"r","o","l","e","s"," ","a","s","s","i","g","n","e","d">> >>, <<>>), TimedOut } }
    ELSE IF resource_type = <<"f","a","b","r","i","c","-","c","a","p","a","c","i","t","y">>
    THEN { [ fabric |-> f, has_post_script |-> FALSE, principal |-> "none",
             os_post |-> SpawnFailed ] : f \in FabricEnvs }
    ELSE { [ fabric |-> NoFabric, has_post_script |-> FALSE, principal |-> "none",
             os_post |-> SpawnFailed ] }

DirectEnv(exists, has_deploy_script, os_deploy, s) ==
    [ DeployEnv(TRUE, [ exists |-> exists, lines |-> <<>> ], has_deploy_script, os_deploy)
      EXCEPT !.os_token = s.fabric.os_token, !.http = s.fabric.http,
             !.has_post_script = s.has_post_script, !.principal = s.principal,
             !.os_post = s.os_post ]

DirectCalls ==
    { [ fn |-> "deploy_bicep", resource_group |-> <<"r","g">>, resource_type |-> x[1],
        parameters |-> x[2], env |-> DirectEnv(t, h, o, x[3]) ] :
        t \in BOOLEAN, h \in BOOLEAN, o \in DirectOutcomes,
        x \in UNION { { << r, p, s >> : p \in DirectParams(r), s \in DirectSettings(r) } :
                      r \in DirectTypes } }

\* deploy_bicep returns
CallDeploy ==
    /\ call.fn = "deploy_bicep"
    /\ ret = NoRet
    /\ ret' = deploy_bicep(call.resource_group, call.resource_type, call.parameters, call.env)
    /\ UNCHANGED << pc, run, tool, args, nsp_name, workspace_id, workspace_name, check_data,
                    output, result, calls, attach_os, check_failed, create_ok, nominal, cloud, prev, call >>

\* ------------------------------------------------------------------------
\* get_bicep_requirements (agent/azure.py)
\* ------------------------------------------------------------------------
\* the names of the schema entries at the indices in keep, in schema order
SchemaNames(params, keep) == Names(Filter(params, keep))

\* a report whose location is the default whatever the lookup finds
RequirementsDefaultLocation(resource_type, e) ==
    [ known |-> TRUE, text |-> <<>>, required |-> <<>>, optional |-> <<>>, defaults |-> <<>>,
      auto_detected |-> << << <<"l","o","c","a","t","i","o","n">>, <<"w","e","s","t","c","e","n","t","r","a","l","u","s">> >> >>, note |-> <<>>,
      calls |-> <<>> ]

\* the dict get_bicep_requirements dumps as JSON, as a record; text is the
\* answer for a type without template
get_bicep_requirements(resource_type, e) ==
    IF ~HasKey(TEMPLATE_MAP, resource_type)
    THEN [ known |-> FALSE,
           text |-> <<"U","n","k","n","o","w","n"," ","r","e","s","o","u","r","c","e","_","t","y","p","e","."," ","V","a","l","i","d",":"," ">> \o Join(Keys(TEMPLATE_MAP), <<","," ">>),
           required |-> <<>>, optional |-> <<>>, defaults |-> <<>>, auto_detected |-> <<>>,
           note |-> <<>>, calls |-> <<>> ]
    ELSE
    With(parse_bicep_parameters(e.template), LAMBDA params :
    IF resource_type = <<"f","a","b","r","i","c","-","c","a","p","a","c","i","t","y">>
    THEN With(TokenOk(e), LAMBDA token_ok :
         With(get_fabric_tenant_region(token_ok, e), LAMBDA tenant_region :
             [ known |-> TRUE, text |-> <<>>,
               required |-> SchemaNames(params, { i \in DOMAIN params :
                                params[i].required /\ params[i].name # <<"l","o","c","a","t","i","o","n">> }),
               optional |-> SchemaNames(params, { i \in DOMAIN params :
                                ~params[i].required /\ params[i].name # <<"l","o","c","a","t","i","o","n">> }),
               defaults |-> Filter(params, { i \in DOMAIN params :
                                params[i].default # None /\ params[i].name # <<"l","o","c","a","t","i","o","n">> }),
               auto_detected |-> << << <<"l","o","c","a","t","i","o","n">>,
                                       IF Falsy(tenant_region) THEN <<"w","e","s","t","c","e","n","t","r","a","l","u","s">>
                                       ELSE tenant_region >> >>,
               note |-> <<"L","o","c","a","t","i","o","n"," ","i","s"," ","a","u","t","o","m","a","t","i","c","a","l","l","y"," ","s","e","t"," ","t","o"," ","y","o","u","r"," ","F","a","b","r","i","c"," ","t","e","n","a","n","t","'","s"," ","h","o","m","e"," ","r","e","g","i","o","n">>
                        \o (IF Falsy(tenant_region) THEN <<" ","(","w","i","l","l"," ","u","s","e"," ","d","e","f","a","u","l","t",":"," ","w","e","s","t","c","e","n","t","r","a","l","u","s",")">>
                            ELSE <<" ","(","a","u","t","o","-","d","e","t","e","c","t","e","d",":"," ">> \o tenant_region \o <<")">>)
                        \o <<"."," ","Y","o","u"," ","d","o"," ","n","o","t"," ","n","e","e","d"," ","t","o"," ","s","p","e","c","i","f","y"," ","i","t",".">>,
               calls |-> FabricRegionCalls(token_ok) ]))
    ELSE [ known |-> TRUE, text |-> <<>>,
           required |-> SchemaNames(params, { i \in DOMAIN params : params[i].required }),
           optional |-> SchemaNames(params, { i \in DOMAIN params : ~params[i].required }),
           defaults |-> Filter(params, { i \in DOMAIN params : params[i].default # None }),
           auto_detected |-> <<>>, note |-> <<>>, calls |-> <<>> ])

\* the calls of get_bicep_requirements: for fabric-capacity with every
\* answer of the region lookup, for a type without special handling and for
\* a type without template
RequirementCalls ==
    { [ fn |-> "get_bicep_requirements", resource_type |-> x[1],
        env |-> [ DirectEnv(t, TRUE, Exit(0, << <<"p","r","o","v","i","s","i","o","n","i","n","g","S","t","a","t","e",":"," ","S","u","c","c","e","e","d","e","d">> >>, <<>>), x[2])
                  EXCEPT !.template = [ exists |-> t, lines |-> TemplateLines(d) ] ] ] :
        t \in BOOLEAN, d \in Declarations,
        x \in UNION { { << r, s >> : s \in DirectSettings(r) } :
                      r \in { <<"f","a","b","r","i","c","-","c","a","p","a","c","i","t","y">>, <<"n","s","p">>, <<"u","n","k","n","o","w","n">> } } }

\* azure_get_bicep_requirements returns
CallRequirements ==
    /\ call.fn = "get_bicep_requirements"
    /\ ret = NoRet
    /\ ret' = get_bicep_requirements(call.resource_type, call.env)
    /\ UNCHANGED << pc, run, tool, args, nsp_name, workspace_id, workspace_name, check_data,
                    output, result, calls, attach_os, check_failed, create_ok, nominal, cloud,
                    prev, call >>

\* ------------------------------------------------------------------------
\* The calls of deploy_bicep and get_bicep_requirements
\* ------------------------------------------------------------------------
InitDeploy ==
    /\ Fresh
    /\ cloud = <<>>
    /\ \/ call \in DirectCalls
       \/ call \in RequirementCalls
    /\ ret = NoRet

NextDeploy == CallDeploy \/ CallRequirements

SpecDeploy == InitDeploy /\ [][NextDeploy]_vars

\* ------------------------------------------------------------------------
\* C21: the compliance prompts of deploy_bicep
\* ------------------------------------------------------------------------
DeployReturned == call.fn = "deploy_bicep" /\ ret # NoRet /\ ~ret.raised

\* whether the lines of block stand in text, one after the other
HasBlock(text, block) ==
    \E i \in 1..(Len(text) - Len(block) + 1) : SubSeq(text, i, i + Len(block) - 1) = block

HasBanner(text) == \E i \in DOMAIN text : text[i] = <<" ","D","E","P","L","O","Y","M","E","N","T"," ","S","U","C","C","E","S","S","F","U","L">>

\* what the deployment command printed, as run_command hands it on
RawOutput ==
    LET started == { i \in DOMAIN ret.calls : ret.calls[i].op = "deploy" }
        forwarded == ret.calls[CHOOSE i \in started : TRUE].arg
    IN  RunCommand(DeployCommand(call.resource_group,
                                 get_template_path(Get(TEMPLATE_MAP, call.resource_type)),
                                 ParamString(forwarded), call.env.has_pwsh),
                   call.env.os_deploy).text

DeployRan == CountOp(ret.calls, "deploy") = 1

\* the deployment script has run and its output holds "Succeeded" and not
\* "Failed"
JudgedSuccessful ==
    /\ DeployRan
    /\ Contains(RawOutput, <<"S","u","c","c","e","e","d","e","d">>)
    /\ ~Contains(RawOutput, <<"F","a","i","l","e","d">>)

MandatoryNsp ==
    call.resource_type \in
        { <<"s","t","o","r","a","g","e","-","a","c","c","o","u","n","t">>, <<"k","e","y","-","v","a","u","l","t">>, <<"c","o","s","m","o","s","-","d","b">>, <<"s","q","l","-","d","b">> }

MandatoryDiagnostics == InList(LOG_ANALYTICS_MANDATORY_RESOURCES, call.resource_type)

\* C21: a response of deploy_bicep holds the NSP prompt exactly when the
\* deployment output was judged successful and the type is NSP-mandatory, and
\* the diagnostics prompt exactly when it was judged successful and the type
\* is diagnostics-mandatory; a deployment that ran and was not judged
\* successful returns the raw output, without prompt and without banner
C21_PromptsFollowSuccess ==
    DeployReturned =>
        /\ HasBlock(ret.text, NspPrompt) <=> (JudgedSuccessful /\ MandatoryNsp)
        /\ HasBlock(ret.text, LogAnalyticsPrompt) <=> (JudgedSuccessful /\ MandatoryDiagnostics)
        /\ (DeployRan /\ ~JudgedSuccessful) =>
               /\ ret.text = RawOutput
               /\ ~HasBanner(ret.text)

\* a successful key-vault deployment answers with both prompts
C21_Witness ==
    /\ DeployReturned
    /\ call.resource_type = <<"k","e","y","-","v","a","u","l","t">>
    /\ JudgedSuccessful
    /\ HasBlock(ret.text, NspPrompt)
    /\ HasBlock(ret.text, LogAnalyticsPrompt)

\* an output that names both states is handed back as it is
C21_WitnessFailed ==
    /\ DeployReturned
    /\ call.resource_type = <<"k","e","y","-","v","a","u","l","t">>
    /\ DeployRan
    /\ Contains(RawOutput, <<"S","u","c","c","e","e","d","e","d">>)
    /\ Contains(RawOutput, <<"F","a","i","l","e","d">>)
    /\ ret.text = RawOutput

\* ------------------------------------------------------------------------
\* C22: a deployment starts no compliance step
\* ------------------------------------------------------------------------
StartedOps(events) == { events[i].op : i \in DOMAIN events }

ComplianceTools == { "attach_to_nsp", "attach_diagnostic_settings" }

\* C22: a call of create_resource or deploy_bicep_resource starts neither an
\* attach command nor a lookup nor a create step of a compliance workflow,
\* and at most the one deployment it was asked for, whatever the type and
\* the outcome; attach commands are started by the two compliance tools only
C22_NoChaining ==
    /\ ToolReturned =>
           /\ StartedOps(ret.calls) \cap { "attach", "check", "create_resource" } = {}
           /\ CountOp(ret.calls, "deploy") <= 1
    /\ CountOp(calls, "attach") > 0 => (call = NoCall /\ tool \in ComplianceTools)

\* a storage account is deployed and the caller is asked about the NSP; no
\* attach command has run
C22_Witness ==
    /\ ToolReturned
    /\ call.resource_type = <<"s","t","o","r","a","g","e","-","a","c","c","o","u","n","t">>
    /\ ret.deployed
    /\ HasBlock(ret.text, NspPrompt)
    /\ CountOp(ret.calls, "deploy") = 1
    /\ CountOp(ret.calls, "attach") = 0

\* ------------------------------------------------------------------------
\* C23: errors are returned as text
\* ------------------------------------------------------------------------
WorkflowRaised == pc = "done" /\ result.status = "raised"
ToolRaised == ToolReturned /\ ret.raised

\* C23: whatever the operating system answers to an external command and
\* whatever the caller passes, a compliance workflow and a call of
\* create_resource or deploy_bicep_resource end with a text; none ends by an
\* exception
C23_ErrorsAreData == ~WorkflowRaised /\ ~ToolRaised

\* ------------------------------------------------------------------------
\* C24: no retries
\* ------------------------------------------------------------------------
\* C24: in one run of a compliance workflow the create step, the attach
\* command and the deployment script are started at most once each, and a
\* lookup command that has failed is not started again in that run
C24_NoRetries ==
    /\ CountOp(calls, "create_resource") <= 1
    /\ CountOp(calls, "attach") <= 1
    /\ CountOp(calls, "deploy") <= 1
    /\ check_failed => CountOp(calls, "check") <= 1

\* the lookup command runs a second time in a run where it had failed
LookupRepeatedAfterFailure == check_failed /\ CountOp(calls, "check") = 2

\* ------------------------------------------------------------------------
\* C25: the not-found classification
\* ------------------------------------------------------------------------
\* check_resource has answered the workflow's lookup with the not-found shape
NotFoundReported == check_data.ret = "not_found" /\ check_data.count = 0

\* C25: the lookup of a workflow is classified as not-found only when the
\* check script has run to its end and reported so, never on the text the
\* command runner adds for a failed command; a failed lookup is never
\* followed by a create step
C25_NotFoundFromScriptOnly ==
    /\ NotFoundReported => ~check_failed
    /\ pc = "create" => ~check_failed

\* a lookup that failed is classified as not-found and the create step is next
FailedLookupNotFound == NotFoundReported /\ check_failed /\ pc = "create"

\* ------------------------------------------------------------------------
\* C26: create_resource against validate_bicep_parameters
\* ------------------------------------------------------------------------
\* a call of create_resource that has come to the check of the template
\* parameters: known type, a resource group, a dict, the template file there
CreateChecked ==
    /\ call.fn = "create_resource"
    /\ ret # NoRet
    /\ ~ret.raised
    /\ HasKey(TEMPLATE_MAP, call.resource_type)
    /\ call.parameters.kind = "dict"
    /\ ~Falsy(call.resource_group)
    /\ call.exists

AsksForMissing ==
    \E i \in DOMAIN ret.text : ret.text[i] = <<"P","l","e","a","s","e"," ","p","r","o","v","i","d","e"," ","t","h","e"," ","f","o","l","l","o","w","i","n","g"," ","r","e","q","u","i","r","e","d"," ","p","a","r","a","m","e","t","e","r","s",":">>

\* the names create_resource asks for, in the order of its text
AskedNames ==
    LET asked == Filter(ret.text, { i \in DOMAIN ret.text : StartsWith(ret.text[i], <<" "," ","-"," ">>) })
    IN  IF AsksForMissing THEN [ i \in DOMAIN asked |-> Drop(asked[i], 4) ] ELSE <<>>

\* what validate_bicep_parameters answers to the arguments of the call
Validation ==
    validate_bicep_parameters(call.resource_type, call.parameters.dict, ToolEnv(call).template)

\* what deploy_bicep_resource starts when given the arguments of the call
StartedByDeployResource ==
    StartedOps(deploy_bicep_resource(call.resource_group, call.resource_type,
                                     call.parameters.dict, ToolEnv(call)).calls)

\* the template declares subnetStartingAddress without default and the
\* caller gives it no value
AddressRequiredAndAbsent ==
    /\ \E j \in DOMAIN call.decls :
           call.decls[j].name = <<"s","u","b","n","e","t","S","t","a","r","t","i","n","g","A","d","d","r","e","s","s">> /\ ~call.decls[j].has_default
    /\ ~HasValue(call.parameters.dict, <<"s","u","b","n","e","t","S","t","a","r","t","i","n","g","A","d","d","r","e","s","s">>)

C26_WitnessAgree ==
    /\ CreateChecked
    /\ call.resource_type = <<"s","t","o","r","a","g","e","-","a","c","c","o","u","n","t">>
    /\ AsksForMissing
    /\ AskedNames = Validation.missing

\* ------------------------------------------------------------------------
\* C27: alignment of the calculated address
\* ------------------------------------------------------------------------
\* C27: every address calculate_next_subnet_address returns is a network
\* address of the requested prefix length: its integer value is a multiple
\* of the block size 2^(32 - subnet_size)
C27_AddressAligned ==
    (SubnetReturned /\ ret.address # None) => IpToInt(ret.address) % BlockSize = 0

\* the address returned lies right behind a smaller subnet and not on a
\* boundary of the requested size
UnalignedAddress ==
    /\ SubnetReturned
    /\ ret.address # None
    /\ IpToInt(ret.address) % BlockSize # 0

\* ------------------------------------------------------------------------
\* C28: where the attach target comes from
\* ------------------------------------------------------------------------
\* what identifies a prerequisite to the attach command of the running tool
TargetOf(r) == IF IsNsp THEN r.name ELSE r.id

\* the prerequisites the lookup of the run returned
LookupTargets == { TargetOf(check_data.resources[i]) : i \in DOMAIN check_data.resources }

\* the prerequisite of the create step of the run, if the resource group
\* holds it
CreatedTargets ==
    IF CreateEvents = <<>> THEN {}
    ELSE { TargetOf(cloud[i]) :
             i \in { j \in DOMAIN cloud : cloud[j].name = CreatedName(CreateEvents[1]) } }

\* C28: the prerequisite passed to the attach command is one the lookup of
\* the run returned or the one the run has created; a name or id of the
\* caller that matches no lookup result is not passed on
C28_TargetFromLookupOrCreated ==
    \A i \in DOMAIN AttachEvents : AttachEvents[i].arg \in LookupTargets \cup CreatedTargets

\* every command answers regularly, the lookup lists workspaces, and the
\* attach command gets the caller's id, which is none of them
UnlistedIdForwarded ==
    /\ nominal
    /\ ~IsNsp
    /\ check_data.resources # <<>>
    /\ AttachEvents # <<>>
    /\ AttachEvents[1].arg = args.name
    /\ args.name \notin LookupTargets

\* the lookup lists no NSP, the create step deploys nothing, and the attach
\* command gets the caller's name
UncreatedNameForwarded ==
    /\ IsNsp
    /\ check_data.ret = "not_found"
    /\ create_ok = "failed"
    /\ AttachEvents # <<>>
    /\ AttachEvents[1].arg = args.name
    /\ \A i \in DOMAIN cloud : cloud[i].name # args.name

\* ------------------------------------------------------------------------
\* C29: the reported and the forwarded location of a fabric capacity
\* ------------------------------------------------------------------------
FabricReported ==
    /\ call.fn = "get_bicep_requirements"
    /\ ret # NoRet
    /\ call.resource_type = <<"f","a","b","r","i","c","-","c","a","p","a","c","i","t","y">>

\* the location get_bicep_requirements reports as auto-detected
ReportedLocation == Get(ret.auto_detected, <<"l","o","c","a","t","i","o","n">>)

\* the locations deploy_bicep hands to the deployment script under the
\* answers of the call, for each parameter map of the model
ForwardedLocations ==
    { Get(ev.arg, <<"l","o","c","a","t","i","o","n">>) :
        ev \in UNION { { r.calls[i] : i \in { j \in DOMAIN r.calls : r.calls[j].op = "deploy" } } :
                       r \in { deploy_bicep(<<"r","g">>, call.resource_type, p, call.env) :
                                 p \in DirectParams(call.resource_type) } } }

\* C29 as stated: under the same answers of the region lookup the location
\* reported as auto-detected equals the location deploy_bicep forwards
C29_SameLocation ==
    FabricReported => \A l \in ForwardedLocations : l = ReportedLocation

\* C29, amended: the forwarded location is the reported one in lower case
\* with its blanks removed, and so equal to it when the lookup finds no region
\* and both fall back to westcentralus
C29_ForwardedIsNormalized ==
    FabricReported =>
        /\ \A l \in ForwardedLocations : l = RemoveSpaces(Lower(ReportedLocation))
        /\ call.env.template.exists => ForwardedLocations # {}

\* the lookup finds 'West US 3': reported as it is, forwarded as westus3
C29_Witness ==
    /\ FabricReported
    /\ ReportedLocation = <<"W","e","s","t"," ","U","S"," ","3">>
    /\ ForwardedLocations = { <<"w","e","s","t","u","s","3">> }

\* ------------------------------------------------------------------------
\* Pipeline templates (agent/utils.py detect_pipeline_type, agent/ado.py
\* deploy_pipeline_yaml)
\* ------------------------------------------------------------------------
\* s.replace(old, new) for a non-empty old
RECURSIVE ReplaceStr(_, _, _)
ReplaceStr(s, old, new) ==
    IF Len(s) < Len(old) THEN s
    ELSE IF SubSeq(s, 1, Len(old)) = old THEN new \o ReplaceStr(Drop(s, Len(old)), old, new)
    ELSE << Head(s) >> \o ReplaceStr(Tail(s), old, new)

EndsWith(s, suffix) ==
    Len(s) >= Len(suffix) /\ SubSeq(s, Len(s) - Len(suffix) + 1, Len(s)) = suffix

\* os.path.basename
Basename(path) == LET parts == Split(path, "/") IN parts[Len(parts)]

\* name.lower().replace('_', '-').replace(' ', '-')
NormalizedName(name) == ReplaceStr(ReplaceStr(Lower(name), <<"_">>, <<"-">>), <<" ">>, <<"-">>)

\* a detection that hands the normalized name back
NameAsType(pipeline_name, user_input) == NormalizedName(pipeline_name)

\* the first entry of PIPELINE_TYPE_KEYWORDS, from index i on, whose keyword
\* occurs in combined and whose type has a template; 0 if there is none
RECURSIVE KeywordHit(_, _)
KeywordHit(combined, i) ==
    IF i > Len(PIPELINE_TYPE_KEYWORDS) THEN 0
    ELSE IF ContainsStr(combined, PIPELINE_TYPE_KEYWORDS[i][1])
            /\ HasKey(PIPELINE_TEMPLATE_MAP, PIPELINE_TYPE_KEYWORDS[i][2])
    THEN i
    ELSE KeywordHit(combined, i + 1)

\* the first template key, from index i on, that contains the normalized name
\* or is contained in it; 0 if there is none
RECURSIVE PartialHit(_, _)
PartialHit(normalized_name, i) ==
    IF i > Len(PIPELINE_TEMPLATE_MAP) THEN 0
    ELSE IF ContainsStr(normalized_name, PIPELINE_TEMPLATE_MAP[i][1])
            \/ ContainsStr(PIPELINE_TEMPLATE_MAP[i][1], normalized_name)
    THEN i
    ELSE PartialHit(normalized_name, i + 1)

detect_pipeline_type(pipeline_name, user_input) ==
    With(KeywordHit(Lower(pipeline_name \o <<" ">> \o user_input), 1), LAMBDA k :
    IF k # 0 THEN PIPELINE_TYPE_KEYWORDS[k][2]
    ELSE
    With(NormalizedName(pipeline_name), LAMBDA normalized_name :
    IF HasKey(PIPELINE_TEMPLATE_MAP, normalized_name) THEN normalized_name
    ELSE
    With(PartialHit(normalized_name, 1), LAMBDA t :
    IF t # 0 THEN PIPELINE_TEMPLATE_MAP[t][1] ELSE <<"c","r","e","d","s","c","a","n">>)))

\* not x or not x.strip()
Blank(x) == Falsy(x) \/ Strip(x) = <<>>

\* text.strip() for a text of several lines
RECURSIVE DropBlankLines(_)
DropBlankLines(t) ==
    IF t # <<>> /\ Strip(Head(t)) = <<>> THEN DropBlankLines(Tail(t)) ELSE t

Reverse(t) == [ i \in 1..Len(t) |-> t[Len(t) + 1 - i] ]

\* the line starts with the cross of run_command's messages: the glyph is
\* left out of the texts here and is no whitespace in the source
StartsWithMark(line) ==
    StartsWith(line, <<" ","E","R","R","O","R",":"," ","C","o","m","m","a","n","d"," ","t","i","m","e","d"," ","o","u","t">>) \/ StartsWith(line, <<" ","E","X","E","C","U","T","I","O","N"," ","E","R","R","O","R",":">>)

LStripLine(line) == IF StartsWithMark(line) THEN line ELSE LStrip(line)

StripText(t) ==
    With(Reverse(DropBlankLines(Reverse(DropBlankLines(t)))), LAMBDA kept :
        IF kept = <<>> THEN <<>>
        ELSE [ i \in 1..Len(kept) |->
                 IF Len(kept) = 1 THEN RStrip(LStripLine(kept[i]))
                 ELSE IF i = 1 THEN LStripLine(kept[i])
                 ELSE IF i = Len(kept) THEN RStrip(kept[i])
                 ELSE kept[i] ])

\* the missing arguments, in the order of the checks
MissingArguments(a, organization) ==
    (IF Blank(organization) THEN << <<"o","r","g","a","n","i","z","a","t","i","o","n"," ","(","o","r","g"," ","U","R","L",")">> >> ELSE <<>>)
    \o (IF Blank(a.project_name) THEN << <<"p","r","o","j","e","c","t","_","n","a","m","e"," ","(","e","x","i","s","t","i","n","g"," ","p","r","o","j","e","c","t",")">> >> ELSE <<>>)
    \o (IF Blank(a.repo_name) THEN << <<"r","e","p","o","_","n","a","m","e"," ","(","e","x","i","s","t","i","n","g"," ","r","e","p","o",")">> >> ELSE <<>>)
    \o (IF Blank(a.pipeline_type)
        THEN << <<"p","i","p","e","l","i","n","e","_","t","y","p","e"," ","(","t","e","m","p","l","a","t","e"," ","k","e","y"," ","l","i","k","e"," ","'","c","r","e","d","s","c","a","n","'",","," ","'","c","r","e","d","s","c","a","n","-","1","e","s","'",","," ","o","r"," ","n","a","m","e"," ","f","o","r"," ","c","u","s","t","o","m",")">> >>
        ELSE <<>>)
    \o (IF Blank(a.branch) THEN << <<"b","r","a","n","c","h"," ","(","t","a","r","g","e","t"," ","b","r","a","n","c","h",","," ","u","s","u","a","l","l","y"," ","'","m","a","i","n","'",")">> >> ELSE <<>>)

\* the name of the file of custom YAML content
YamlName(a) ==
    With(OrElse(a.yaml_file_name, a.pipeline_type \o <<".","y","m","l">>), LAMBDA yaml_name :
        IF ~EndsWith(yaml_name, <<".","y","m","l">>) /\ ~EndsWith(yaml_name, <<".","y","a","m","l">>)
        THEN yaml_name \o <<".","y","m","l">> ELSE yaml_name)

PipelineCommand(params, has_pwsh) ==
    << ps_executable(has_pwsh), <<"-","E","x","e","c","u","t","i","o","n","P","o","l","i","c","y">>, <<"B","y","p","a","s","s">>, <<"-","F","i","l","e">>,
       get_script_path(<<"d","e","p","l","o","y","-","p","i","p","e","l","i","n","e","-","y","a","m","l",".","p","s","1">>) >> \o PsParams(params)

\* deploy_pipeline_yaml with the arguments a in an environment e: e.has_pwsh,
\* e.has_script (deploy-pipeline-yaml.ps1 exists), e.os (what the operating
\* system does with the command)
deploy_pipeline_yaml(a, e) ==
    With(IF ~Falsy(a.organization) /\ ~StartsWith(Lower(Strip(a.organization)), <<"h","t","t","p">>)
         THEN <<"h","t","t","p","s",":","/","/","d","e","v",".","a","z","u","r","e",".","c","o","m","/">> \o Strip(a.organization) ELSE a.organization,
         LAMBDA organization :
    With(MissingArguments(a, organization), LAMBDA missing :
    IF missing # <<>>
    THEN Result(FALSE,
                << <<"D","e","p","l","o","y"," ","P","i","p","e","l","i","n","e"," ","Y","A","M","L">>, <<>>, <<"P","l","e","a","s","e"," ","p","r","o","v","i","d","e",":">> >>
                \o [ i \in DOMAIN missing |-> <<" "," ","-"," ">> \o missing[i] ]
                \o << <<>>,
                      <<"A","v","a","i","l","a","b","l","e"," ","t","e","m","p","l","a","t","e","s",":"," ">> \o Join(Keys(PIPELINE_TEMPLATE_MAP), <<","," ">>),
                      <<>>,
                      <<"O","p","t","i","o","n","a","l",":"," ","f","o","l","d","e","r","_","p","a","t","h"," ","(","d","e","f","a","u","l","t","s"," ","t","o"," ","'","p","i","p","e","l","i","n","e","s","'",")",","," ","c","u","s","t","o","m","_","y","a","m","l","_","c","o","n","t","e","n","t",","," ","y","a","m","l","_","f","i","l","e","_","n","a","m","e">> >>,
                <<>>)
    ELSE IF ~e.has_script
    THEN Result(FALSE, << <<"E","r","r","o","r",":"," ","d","e","p","l","o","y","-","p","i","p","e","l","i","n","e","-","y","a","m","l",".","p","s","1"," ","n","o","t"," ","f","o","u","n","d">> >>, <<>>)
    ELSE
    With(<< << <<"O","r","g","a","n","i","z","a","t","i","o","n">>, organization >>, << <<"P","r","o","j","e","c","t","N","a","m","e">>, a.project_name >>,
            << <<"R","e","p","o","N","a","m","e">>, a.repo_name >> >>, LAMBDA target :
    With(<< << <<"B","r","a","n","c","h">>, a.branch >>, << <<"F","o","l","d","e","r","P","a","t","h">>, OrElse(a.folder_path, <<"p","i","p","e","l","i","n","e","s">>) >> >>,
         LAMBDA place :
    With(detect_pipeline_type(a.pipeline_type, a.pipeline_type), LAMBDA detected_type :
    IF Falsy(a.custom_yaml_content) /\ ~HasKey(PIPELINE_TEMPLATE_MAP, detected_type)
    THEN Result(FALSE,
                << <<"P","i","p","e","l","i","n","e"," ","t","e","m","p","l","a","t","e"," ","'">> \o a.pipeline_type \o <<"'"," ","n","o","t"," ","f","o","u","n","d"," ","i","n"," ","a","g","e","n","t","/","t","e","m","p","l","a","t","e","s",".">>,
                   <<>>,
                   <<"A","v","a","i","l","a","b","l","e"," ","t","e","m","p","l","a","t","e","s",":"," ">> \o Join(Keys(PIPELINE_TEMPLATE_MAP), <<","," ">>),
                   <<>>,
                   <<"T","o"," ","d","e","p","l","o","y"," ","c","u","s","t","o","m"," ","Y","A","M","L",","," ","p","r","o","v","i","d","e"," ","t","h","e"," ","c","u","s","t","o","m","_","y","a","m","l","_","c","o","n","t","e","n","t"," ","p","a","r","a","m","e","t","e","r"," ","w","i","t","h"," ","y","o","u","r"," ","Y","A","M","L"," ","c","o","n","t","e","n","t",".">> >>,
                <<>>)
    ELSE
    With(IF ~Falsy(a.custom_yaml_content)
         THEN target
              \o << << <<"T","e","m","p","l","a","t","e","N","a","m","e">>,
                       ReplaceStr(ReplaceStr(YamlName(a), <<".","y","m","l">>, <<>>), <<".","y","a","m","l">>, <<>>) >> >>
              \o place
              \o << << <<"C","u","s","t","o","m","Y","a","m","l","C","o","n","t","e","n","t">>, a.custom_yaml_content >>,
                    << <<"Y","a","m","l","F","i","l","e","N","a","m","e">>, YamlName(a) >> >>
         ELSE target
              \o << << <<"T","e","m","p","l","a","t","e","N","a","m","e">>,
                       ReplaceStr(Basename(Get(PIPELINE_TEMPLATE_MAP, detected_type)),
                                  <<".","y","m","l">>, <<>>) >> >>
              \o place,
         LAMBDA params :
    With(RunCommand(PipelineCommand(params, e.has_pwsh), e.os), LAMBDA out :
        IF out.raised
        THEN Result(FALSE, << <<"Y","A","M","L"," ","d","e","p","l","o","y","m","e","n","t"," ","f","a","i","l","e","d">> >>,
                    << Event("pipeline_deploy", params) >>)
        ELSE Result(FALSE, StripText(out.text), << Event("pipeline_deploy", params) >>))))))))

\* the pipeline names of the calls: template keys in several spellings,
\* names that hold a keyword, parts of a key, and names that share nothing
\* with a key
PipelineNames ==
    { <<"c","r","e","d","s","c","a","n">>, <<"C","r","e","d","S","c","a","n">>, <<"c","r","e","d","s","c","a","n","-","1","e","s">>, <<"c","r","e","d","s","c","a","n","_","1","e","s">>, <<"c","r","e","d","s","c","a","n"," ","1","e","s">>,
      <<"m","y"," ","p","r","o","d"," ","b","u","i","l","d">>, <<"P","r","o","d","u","c","t","i","o","n">>, <<"1","E","S">>, <<"1">>, <<"e","s">>, <<"c","r","e","d">>, <<"x">>, <<"b","u","i","l","d">>, <<"-">>,
      <<"n","i","g","h","t","l","y","_","b","u","i","l","d">>, <<"c","r","e","d"," ","s","c","a","n">>, <<"c","-","1">>, <<"P","R","O","D">> }

UserInputs == { <<>>, <<"u","s","e"," ","t","h","e"," ","1","e","s"," ","p","o","o","l">>, <<"f","o","r"," ","p","r","o","d","u","c","t","i","o","n">>, <<"c","r","e","d","s","c","a","n"," ","p","l","e","a","s","e">>, <<"h","e","l","l","o">> }

DetectCalls ==
    { [ fn |-> "detect_pipeline_type", pipeline_name |-> n, user_input |-> u ] :
        n \in PipelineNames \cup { <<>> }, u \in UserInputs }

PipelineOutcomes ==
    { Exit(0, << <<"P","u","s","h","e","d"," ","p","i","p","e","l","i","n","e","s","/","c","r","e","d","s","c","a","n","_","P","i","p","e","l","i","n","e",".","y","m","l">> >>, <<>>),
      Exit(1, <<>>, << <<"f","a","t","a","l",":"," ","b","r","a","n","c","h"," ","d","o","e","s"," ","n","o","t"," ","e","x","i","s","t">> >>), TimedOut }

\* the calls of deploy_pipeline_yaml: with every name as pipeline_type, with
\* and without custom content, and those that lack an argument or the script
PipelineCalls ==
    { [ fn |-> "deploy_pipeline_yaml",
        a |-> [ organization |-> <<"o","r","g">>, project_name |-> <<"p">>, repo_name |-> <<"r">>,
                pipeline_type |-> n, branch |-> <<"m","a","i","n">>, folder_path |-> None,
                custom_yaml_content |-> c[1], yaml_file_name |-> c[2] ],
        env |-> [ has_pwsh |-> TRUE, has_script |-> TRUE, os |-> o ] ] :
        n \in PipelineNames,
        c \in { << None, None >>, << <<"s","t","e","p","s",":"," ","[","]">>, None >>, << <<"s","t","e","p","s",":"," ","[","]">>, <<"c","i",".","y","a","m","l">> >> },
        o \in PipelineOutcomes }
    \cup { [ fn |-> "deploy_pipeline_yaml",
             a |-> [ organization |-> g, project_name |-> <<"p">>, repo_name |-> <<"r">>,
                     pipeline_type |-> n, branch |-> b, folder_path |-> f,
                     custom_yaml_content |-> None, yaml_file_name |-> None ],
             env |-> [ has_pwsh |-> TRUE, has_script |-> h,
                       os |-> Exit(0, << <<"P","u","s","h","e","d"," ","p","i","p","e","l","i","n","e","s","/","c","r","e","d","s","c","a","n","_","P","i","p","e","l","i","n","e",".","y","m","l">> >>, <<>>) ] ] :
             g \in { None, <<"o","r","g">>, <<"h","t","t","p","s",":","/","/","d","e","v",".","a","z","u","r","e",".","c","o","m","/","o","r","g">> },
             n \in { None, <<" ">>, <<"x">>, <<"c","r","e","d","s","c","a","n","-","1","e","s">> }, b \in { None, <<"m","a","i","n">> },
             f \in { None, <<"c","i">> }, h \in BOOLEAN }

InitPipeline ==
    /\ Fresh
    /\ cloud = <<>>
    /\ \/ call \in DetectCalls
       \/ call \in PipelineCalls
    /\ ret = NoRet

\* detect_pipeline_type returns
CallDetect ==
    /\ call.fn = "detect_pipeline_type"
    /\ ret = NoRet
    /\ ret' = [ fn |-> "detect_pipeline_type",
                pipeline_type |-> detect_pipeline_type(call.pipeline_name, call.user_input) ]
    /\ UNCHANGED << pc, run, tool, args, nsp_name, workspace_id, workspace_name, check_data,
                    output, result, calls, attach_os, check_failed, create_ok, nominal, cloud,
                    prev, call >>

\* ado_deploy_pipeline_yaml returns
CallDeployPipeline ==
    /\ call.fn = "deploy_pipeline_yaml"
    /\ ret = NoRet
    /\ ret' = deploy_pipeline_yaml(call.a, call.env)
    /\ UNCHANGED << pc, run, tool, args, nsp_name, workspace_id, workspace_name, check_data,
                    output, result, calls, attach_os, check_failed, create_ok, nominal, cloud,
                    prev, call >>

NextPipeline == CallDetect \/ CallDeployPipeline

SpecPipeline == InitPipeline /\ [][NextPipeline]_vars

\* ------------------------------------------------------------------------
\* C30: the detected pipeline type always has a template
\* ------------------------------------------------------------------------
DetectReturned == call.fn = "detect_pipeline_type" /\ ret # NoRet

\* deploy_pipeline_yaml has returned from a call without custom content
TemplateDeployReturned ==
    /\ call.fn = "deploy_pipeline_yaml"
    /\ ret # NoRet
    /\ Falsy(call.a.custom_yaml_content)

\* the template name handed to the deployment script
TemplateNames ==
    { Get(ret.calls[i].arg, <<"T","e","m","p","l","a","t","e","N","a","m","e">>) : i \in DOMAIN ret.calls }

\* the name holds no keyword of PIPELINE_TYPE_KEYWORDS and neither contains
\* a template key nor is part of one
Unrecognized(name) ==
    /\ \A i \in DOMAIN PIPELINE_TYPE_KEYWORDS :
           ~ContainsStr(Lower(name), PIPELINE_TYPE_KEYWORDS[i][1])
    /\ \A i \in DOMAIN PIPELINE_TEMPLATE_MAP :
           /\ ~ContainsStr(NormalizedName(name), PIPELINE_TEMPLATE_MAP[i][1])
           /\ ~ContainsStr(PIPELINE_TEMPLATE_MAP[i][1], NormalizedName(name))

C30_WitnessDetect ==
    /\ DetectReturned
    /\ call.pipeline_name = <<"b","u","i","l","d">>
    /\ call.user_input = <<"h","e","l","l","o">>
    /\ ret.pipeline_type = <<"c","r","e","d","s","c","a","n">>

====
